---- MODULE Spec2Model ----
(***************************************************************************)
(* Model of the WebStack Manager control panel (src/cp.py): the process    *)
(* lifecycle engine (start/stop/restart of nginx, php-fpm and mariadb),    *)
(* the status probe, the PHP version switch, the environment resolver and  *)
(* the port rewriting of the service configuration files.                  *)
(*                                                                         *)
(* The program runs on one Qt event loop: every handler runs to completion *)
(* and is one action here.  Handlers are written as operators over a       *)
(* record s = [fs, log, trace, timers, now, nginx_conf, mysql_cnf] so that *)
(* a handler calling another (start_all_services -> start_service) is the  *)
(* composition of the two.  Times are in milliseconds.                     *)
(***************************************************************************)
EXTENDS Integers, Sequences, FiniteSets, TLC

VARIABLES fs,       \* the files under ~/webstack the program reads or writes
          cfg,      \* the check boxes of the settings tab
          log,      \* lines of webstack_manager.log, oldest first
          trace,    \* what the program issued: calls, spawns, signals, dialogs
          timers,   \* pending QTimer.singleShot continuations, in creation order
          now,      \* wall clock, ms
          status,   \* the status labels written by update_status
          nops,     \* user-triggered operations still to come
          probes,   \* firings of the status probe still to come
          slow,     \* handlers with slow external commands still to come
          nginx_conf, \* nginx/conf/nginx.conf: whether it exists, and its text
          mysql_cnf, \* mariadb/my.cnf: whether it exists, and its text
          spin,     \* the values of the two port spin boxes
          diag_output, \* the findings of the last run_diagnostics
          osenv,    \* os.environ as inherited by the program
          dirs,     \* the search-path directories that exist on disk
          env       \* the environment the fallback resolver returned last

vars == <<fs, cfg, log, trace, timers, now, status, nops, probes, slow,
          nginx_conf, mysql_cnf, spin, diag_output, osenv, dirs, env>>

\* what the lifecycle handlers leave alone
others == <<spin, diag_output, osenv, dirs, env>>

----------------------------------------------------------------------------
(* Bounds *)

MaxOps == 1          \* user-triggered operations per behaviour
MaxProbes == 1       \* firings of the periodic status probe per behaviour
MaxTicks == 10       \* clock ticks (of 1000 ms) per behaviour
MaxSlow == 1         \* handlers per behaviour whose external commands are slow
MaxLines == 2        \* lines of an existing nginx.conf
MaxInherited == 1    \* entries of an inherited search path

----------------------------------------------------------------------------
(* Names *)

Services == {"nginx", "php", "mysql"}
Versions == {"8.3", "8.4"}
PidStates == {"absent", "live", "stale", "garbage"}
Signals == {"SIGTERM", "SIGKILL"}

(* A service executable is absent, launchable, or present but refused by   *)
(* the operating system (subprocess.Popen raises OSError).                 *)
ExecStates == {"absent", "ok", "noexec"}

(* One installed (or not) PHP version directory php/<v>:                   *)
(* dir = the directory, php = bin/php, fpm = sbin/php-fpm,                 *)
(* conf = etc/php-fpm.conf, pid = php-fpm.pid                              *)
NoDir == [dir |-> FALSE, php |-> FALSE, fpm |-> "absent", conf |-> FALSE, pid |-> "absent"]
FullDir == [dir |-> TRUE, php |-> TRUE, fpm |-> "ok", conf |-> TRUE, pid |-> "absent"]

----------------------------------------------------------------------------
(* Path lookups *)

\* What php/current resolves to: Path.exists() and every path below
\* php/current follow the symbolic link.
CurResolve(f) ==
    IF f.cur.kind = "link"
    THEN IF f.cur.target \in Versions THEN f.vers[f.cur.target] ELSE NoDir
    ELSE IF f.cur.kind = "dir" THEN f.curdir ELSE NoDir

CurExists(f) == CurResolve(f).dir

EnvShExists(f) == f.envsh # "absent"

----------------------------------------------------------------------------
(* log_message: one line appended to webstack_manager.log *)

\* A line is <<message, subject, detail>>; the timestamp is left out.
log_message(s, msg) == [s EXCEPT !.log = Append(@, msg)]

Emit(s, e) == [s EXCEPT !.trace = Append(@, e)]

\* An entry of the trace.  by = the position in the trace of the call that
\* scheduled the step (0 when it was not deferred).
EvBy(kind, svc, arg, s, by) == [ev |-> kind, svc |-> svc, arg |-> arg, t |-> s.now, by |-> by]

Ev(kind, svc, arg, s) == EvBy(kind, svc, arg, s, 0)

----------------------------------------------------------------------------
(* get_environment: returns [s, raised, env].  The bash subprocess blocks   *)
(* the event loop for o.block ticks.  Only CalledProcessError is caught.   *)

get_environment(s, o) ==
    IF EnvShExists(s.fs)
    THEN LET b == [s EXCEPT !.now = @ + o.block] IN
         CASE s.fs.envsh = "ok" ->
                [s |-> log_message(b, <<"Environment loaded from env.sh", "", "">>),
                 raised |-> FALSE, env |-> "env.sh", err |-> ""]
           [] s.fs.envsh = "nonzero" ->
                [s |-> log_message(b, <<"Error sourcing env.sh", "", "">>),
                 raised |-> FALSE, env |-> "fallback", err |-> ""]
           [] OTHER ->
                [s |-> b, raised |-> TRUE, env |-> "none", err |-> "bash: not launched"]
    ELSE [s |-> log_message(s, <<"env.sh not found, using fallback environment", "", "">>),
          raised |-> FALSE, env |-> "fallback", err |-> ""]

----------------------------------------------------------------------------
(* What the operating system answers to one handler: the exit code of     *)
(* mariadb-admin, and for how long a blocking subprocess.run keeps the     *)
(* event loop busy.                                                        *)

\* A slow command keeps the loop busy for one clock tick.  How long a
\* command blocks matters only while a deferred step is pending.
BlockTimes == IF timers # <<>> /\ slow > 0 THEN {0, 1000} ELSE {0}

Outcomes == [rc : {0, 1}, block : BlockTimes]

----------------------------------------------------------------------------
(* The except branch shared by start_service and stop_service:             *)
(* one log line and a critical dialog.                                     *)

Failed(s, what, service, err) ==
    Emit(log_message(s, <<what, service, err>>),
         Ev("dialog", service, "critical", s))

Warned(s, service, text) == Emit(s, Ev("dialog", service, text, s))

\* subprocess.Popen of a service binary
Popen(s, service, arg) == Emit(s, Ev("spawn", service, arg, s))

----------------------------------------------------------------------------
(* start_service *)

start_nginx(s, o) ==
    IF s.fs.nginx_bin = "absent"
    THEN Warned(s, "nginx", "Nginx binary not found!")
    ELSE IF s.fs.nginx_bin # "ok"
    THEN Failed(s, "Error starting", "nginx", "OSError")
    ELSE log_message(Popen(s, "nginx", "nginx"), <<"Started service", "nginx", "">>)

start_php(s, o) ==
    IF ~CurExists(s.fs)
    THEN Warned(s, "php", "PHP 'current' symlink not found!")
    ELSE IF CurResolve(s.fs).fpm = "absent"
    THEN Warned(s, "php", "PHP-FPM binary not found")
    ELSE IF CurResolve(s.fs).fpm # "ok"
    THEN Failed(s, "Error starting", "php", "OSError")
    ELSE log_message(Popen(s, "php", IF s.fs.cur.kind = "link" THEN s.fs.cur.target ELSE "current"),
                     <<"Started service", "php", "">>)

start_mysql(s, o) ==
    IF s.fs.mysql_safe = "absent"
    THEN Warned(s, "mysql", "MariaDB binary not found!")
    ELSE LET made == [s EXCEPT !.fs.mariadb_dir = TRUE] IN   \* mkdir(parents, exist_ok)
         IF ~made.fs.mariadb_logs
         THEN Failed(made, "Error starting", "mysql", "FileNotFoundError")   \* open(startup_log)
         ELSE LET opened == [made EXCEPT !.fs.startup_log = "written"] IN   \* open(..., "w")
              IF s.fs.mysql_safe # "ok"
              THEN Failed(opened, "Error starting", "mysql", "OSError")
              ELSE log_message(Popen(opened, "mysql", "mariadbd-safe"),
                               <<"Started service", "mysql", "">>)

start_service(s0, service, o, by) ==
    LET s == Emit(s0, EvBy("start", service, "", s0, by))
        ge == get_environment(s, o)
    IN  IF ge.raised
        THEN Failed(ge.s, "Error starting", service, ge.err)
        ELSE CASE service = "nginx" -> start_nginx(ge.s, o)
               [] service = "php" -> start_php(ge.s, o)
               [] OTHER -> start_mysql(ge.s, o)

----------------------------------------------------------------------------
(* stop_service *)

\* with open(pid_file) ...: int(f.read().strip()); os.kill(pid, signal.SIGTERM)
\* returns [s, raised]: a malformed PID file raises ValueError, a PID that
\* names no process raises ProcessLookupError.
\* the same, escalating to SIGKILL for the database ("trying force kill")
KillFromPidFile_force(s, service, pidstate) ==
    CASE pidstate = "absent" -> [s |-> s, raised |-> FALSE, err |-> ""]
      [] pidstate = "live" ->
            [s |-> Emit(s, Ev("signal", service,
                              IF service = "mysql" THEN "SIGKILL" ELSE "SIGTERM", s)),
             raised |-> FALSE, err |-> ""]
      [] pidstate = "stale" ->
            [s |-> Emit(s, Ev("signal", service, "SIGTERM", s)), raised |-> TRUE,
             err |-> "ProcessLookupError"]
      [] OTHER -> [s |-> s, raised |-> TRUE, err |-> "ValueError"]

KillFromPidFile(s, service, pidstate) ==
    CASE pidstate = "absent" -> [s |-> s, raised |-> FALSE, err |-> ""]
      [] pidstate = "live" ->
            [s |-> Emit(s, Ev("signal", service, "SIGTERM", s)), raised |-> FALSE, err |-> ""]
      [] pidstate = "stale" ->
            [s |-> Emit(s, Ev("signal", service, "SIGTERM", s)), raised |-> TRUE,
             err |-> "ProcessLookupError"]
      [] OTHER -> [s |-> s, raised |-> TRUE, err |-> "ValueError"]

Stopped(k, service) ==
    IF k.raised
    THEN Failed(k.s, "Error stopping", service, k.err)
    ELSE log_message(k.s, <<"Stopped service", service, "">>)

stop_mysql(s, o) ==
    IF s.fs.mysql_admin
    THEN LET ran == Emit([s EXCEPT !.now = @ + o.block],
                         Ev("admin", "shutdown", IF o.rc = 0 THEN "ok" ELSE "failed", s)) IN
         IF o.rc # 0
         THEN Stopped(KillFromPidFile(
                        log_message(ran, <<"Graceful shutdown failed, trying force kill", "", "">>),
                        "mysql", s.fs.mysql_pid), "mysql")
         ELSE Stopped([s |-> ran, raised |-> FALSE, err |-> ""], "mysql")
    ELSE Stopped([s |-> log_message(s, <<"MySQL admin not found, cannot stop gracefully", "", "">>),
                  raised |-> FALSE, err |-> ""], "mysql")

stop_service(s0, service, o, by) ==
    LET s == Emit(s0, EvBy("stop", service, "", s0, by))
        ge == get_environment(s, o)
    IN  IF ge.raised
        THEN Failed(ge.s, "Error stopping", service, ge.err)
        ELSE CASE service = "nginx" ->
                    Stopped(KillFromPidFile(ge.s, "nginx", ge.s.fs.nginx_pid), "nginx")
               [] service = "php" ->
                    Stopped(KillFromPidFile(ge.s, "php", CurResolve(ge.s.fs).pid), "php")
               [] OTHER -> stop_mysql(ge.s, o)

----------------------------------------------------------------------------
(* check_mysql_status and update_status: returns [s, result] *)

check_mysql_status(s, o) ==
    IF ~s.fs.mysql_sock
    THEN [s |-> s, result |-> FALSE]
    ELSE LET ge == get_environment(s, o) IN
         IF ge.raised
         THEN [s |-> ge.s, result |-> FALSE]
         ELSE IF ~ge.s.fs.mysql_admin
         THEN [s |-> ge.s, result |-> FALSE]
         ELSE [s |-> Emit([ge.s EXCEPT !.now = @ + o.block],
                          Ev("admin", "ping", IF o.rc = 0 THEN "ok" ELSE "failed", ge.s)),
               result |-> (o.rc = 0)]

\* the labels update_status sets from the files it looks at
StatusLabels(f, mysql_running) ==
    [nginx |-> IF f.nginx_pid # "absent" THEN "Running" ELSE "Stopped",
     php   |-> IF CurExists(f)
               THEN IF CurResolve(f).pid # "absent" THEN "Running" ELSE "Stopped"
               ELSE "Not installed",
     php_version |-> IF CurExists(f)
                     THEN IF f.cur.kind = "link" THEN f.cur.target ELSE "current"
                     ELSE "Unknown",
     mysql |-> IF mysql_running THEN "Running" ELSE "Stopped"]

update_status(s, o) ==
    LET c == check_mysql_status(s, o)
    IN  [s |-> c.s, labels |-> StatusLabels(s.fs, c.result)]

----------------------------------------------------------------------------
(* Deferred steps: QTimer.singleShot(ms, f) *)

singleShot(s, ms, act, arg, by) ==
    [s EXCEPT !.timers = Append(@, [due |-> s.now + ms, act |-> act, arg |-> arg, by |-> by])]

\* position of the call event a handler has just emitted
CallId(s) == Len(s.trace)

Call(s, op, arg, by) == Emit(s, EvBy("call", arg, op, s, by))

----------------------------------------------------------------------------
(* load_environment: returns [s, raised]; it has no try of its own *)

load_environment(s, o) ==
    LET ge == get_environment(s, o) IN
    IF ge.raised
    THEN [s |-> ge.s, raised |-> TRUE]
    ELSE [s |-> log_message(ge.s, <<"WebStack environment loaded", "", "">>), raised |-> FALSE]

\* an exception leaving a slot: PySide reports it and the event loop goes on
Unhandled(s, op) == Emit(s, Ev("unhandled", "", op, s))

----------------------------------------------------------------------------
(* restart_service, start_all_services, stop_all_services,                 *)
(* restart_all_services                                                    *)

\* a restart that starts the service with no settle delay
restart_service_nodelay(s0, service, o) ==
    LET c == Call(s0, "restart_service", service, 0)
        id == CallId(c)
    IN  singleShot(stop_service(c, service, o, id), 0, "start_service", service, id)

restart_service(s0, service, o) ==
    LET c == Call(s0, "restart_service", service, 0)
        id == CallId(c)
    IN  singleShot(stop_service(c, service, o, id), 1000, "start_service", service, id)

start_all_services(s0, cf, o, by) ==
    LET c == log_message(Call(s0, "start_all_services", "", by),
                         <<"Starting all services...", "", "">>)
        id == CallId(Call(s0, "start_all_services", "", by))
        le == IF cf.auto_load_env THEN load_environment(c, o)
                                  ELSE [s |-> c, raised |-> FALSE]
    IN  IF le.raised
        THEN Unhandled(le.s, "start_all_services")
        ELSE singleShot(
               singleShot(start_service(le.s, "mysql", o, id),
                          2000, "start_service", "php", id),
               4000, "start_service", "nginx", id)

\* a stop-all that cleans the logs whatever the policy says
stop_all_services_cleaning(s0, cf, o, by) ==
    LET c == log_message(Call(s0, "stop_all_services", "", by),
                         <<"Stopping all services...", "", "">>)
        id == CallId(Call(s0, "stop_all_services", "", by))
        s1 == stop_service(c, "nginx", o, id)
        s2 == stop_service(s1, "php", o, id)
        s3 == stop_service(s2, "mysql", o, id)
        s4 == singleShot(s3, 1000, "clean_logs", "", id)
    IN  IF cf.auto_clean_temp THEN singleShot(s4, 1000, "clean_temp_files", "", id) ELSE s4

\* a stop-all that cancels the deferred steps still pending
stop_all_services_cancelling(s0, cf, o, by) ==
    LET c == log_message(Call([s0 EXCEPT !.timers = <<>>], "stop_all_services", "", by),
                         <<"Stopping all services...", "", "">>)
        id == CallId(Call(s0, "stop_all_services", "", by))
        s1 == stop_service(c, "nginx", o, id)
        s2 == stop_service(s1, "php", o, id)
        s3 == stop_service(s2, "mysql", o, id)
        s4 == IF cf.auto_clean_logs THEN singleShot(s3, 1000, "clean_logs", "", id) ELSE s3
    IN  IF cf.auto_clean_temp THEN singleShot(s4, 1000, "clean_temp_files", "", id) ELSE s4

stop_all_services(s0, cf, o, by) ==
    LET c == log_message(Call(s0, "stop_all_services", "", by),
                         <<"Stopping all services...", "", "">>)
        id == CallId(Call(s0, "stop_all_services", "", by))
        s1 == stop_service(c, "nginx", o, id)
        s2 == stop_service(s1, "php", o, id)
        s3 == stop_service(s2, "mysql", o, id)
        s4 == IF cf.auto_clean_logs THEN singleShot(s3, 1000, "clean_logs", "", id) ELSE s3
    IN  IF cf.auto_clean_temp THEN singleShot(s4, 1000, "clean_temp_files", "", id) ELSE s4

\* a restart-all that waits one second only
restart_all_services_short(s0, cf, o) ==
    LET c == log_message(Call(s0, "restart_all_services", "", 0),
                         <<"Restarting all services...", "", "">>)
        id == CallId(Call(s0, "restart_all_services", "", 0))
    IN  singleShot(stop_all_services(c, cf, o, id), 1000, "start_all_services", "", id)

restart_all_services(s0, cf, o) ==
    LET c == log_message(Call(s0, "restart_all_services", "", 0),
                         <<"Restarting all services...", "", "">>)
        id == CallId(Call(s0, "restart_all_services", "", 0))
    IN  singleShot(stop_all_services(c, cf, o, id), 5000, "start_all_services", "", id)

----------------------------------------------------------------------------
(* switch_php_version *)

\* a switch that starts php with no settle delay
switch_php_version_nodelay(s0, version, o) ==
    LET c  == Call(s0, "switch_php_version", version, 0)
        id == CallId(c)
        s1 == stop_service(c, "php", o, id)
    IN  IF s1.fs.cur.kind = "dir"
        THEN Failed(s1, "Error switching PHP version", version, "IsADirectoryError")
        ELSE IF s1.fs.cur.kind = "link" /\ ~CurExists(s1.fs)
        THEN Failed(s1, "Error switching PHP version", version, "FileExistsError")
        ELSE LET linked == [s1 EXCEPT !.fs.cur = [kind |-> "link", target |-> version]]
             IN  log_message(singleShot(linked, 0, "start_service", "php", id),
                             <<"Switched to PHP", version, "">>)

switch_php_version(s0, version, o) ==
    LET c  == Call(s0, "switch_php_version", version, 0)
        id == CallId(c)
        s1 == stop_service(c, "php", o, id)
    IN  IF s1.fs.cur.kind = "dir"
        THEN \* current_link.exists() holds and unlink() of a directory raises
             Failed(s1, "Error switching PHP version", version, "IsADirectoryError")
        ELSE IF s1.fs.cur.kind = "link" /\ ~CurExists(s1.fs)
        THEN \* dangling link: exists() is false, symlink_to raises FileExistsError
             Failed(s1, "Error switching PHP version", version, "FileExistsError")
        ELSE LET linked == [s1 EXCEPT !.fs.cur = [kind |-> "link", target |-> version]]
             IN  log_message(singleShot(linked, 1000, "start_service", "php", id),
                             <<"Switched to PHP", version, "">>)

----------------------------------------------------------------------------
(* clean_logs and clean_temp_files, the deferred cleanups of stop_all *)

clean_logs(s, by) ==
    LET c == Emit(s, EvBy("clean", "", "clean_logs", s, by))
        cleaned == [c EXCEPT !.fs.service_logs = FALSE,
                             !.fs.startup_log = IF @ = "old" THEN "absent" ELSE @]
    IN  Emit(log_message(cleaned, <<"Cleaned log files", "", "">>),
             Ev("dialog", "", "information", s))

clean_temp_files(s, by) ==
    LET c == Emit(s, EvBy("clean", "", "clean_temp_files", s, by))
    IN  log_message([c EXCEPT !.fs.tmp_files = FALSE], <<"Cleaned temporary files", "", "">>)

----------------------------------------------------------------------------
(* Text.  A Python string is a sequence of tokens; writing two tokens next  *)
(* to each other is the concatenation of their characters.                 *)

Range(q) == {q[i] : i \in 1..Len(q)}

RECURSIVE Flatten(_)
Flatten(qs) == IF qs = <<>> THEN <<>> ELSE Head(qs) \o Flatten(Tail(qs))

----------------------------------------------------------------------------
(* get_fallback_environment *)

\* deps_dir = ~/webstack/deps, stack_dir = ~/webstack
lib_paths == <<"deps/lib", "deps/lib64", "/usr/lib", "/usr/lib64", "/lib", "/lib64">>

bin_paths == <<"deps/bin", "stack/bin", "/usr/bin", "/bin">>

CandidateDirs == Range(lib_paths) \cup Range(bin_paths)

\* the candidates inside the stack's own tree
PrivateDirs == {"deps/lib", "deps/lib64", "deps/bin", "stack/bin"}

\* a resolver that keeps every candidate, on disk or not
existing_paths_unfiltered(paths, d) == paths

\* [p for p in paths if os.path.exists(p)]
existing_paths(paths, d) == SelectSeq(paths, LAMBDA p : p \in d)

\* ":".join(list)
RECURSIVE join(_)
join(list) ==
    IF list = <<>> THEN <<>>
    ELSE IF Len(list) = 1 THEN <<list[1]>>
    ELSE <<list[1], ":">> \o join(Tail(list))

\* joined + ":" + env[VAR] if VAR in env, else joined.
\* inherited = [set, val]: whether os.environ has the variable, and its text
search_path(paths, d, inherited) ==
    LET joined == join(existing_paths(paths, d)) IN
    IF inherited.set THEN joined \o <<":">> \o inherited.val ELSE joined

get_fallback_environment(d, e) ==
    [resolved |-> TRUE,
     LD_LIBRARY_PATH |-> search_path(lib_paths, d, e.LD_LIBRARY_PATH),
     PATH |-> search_path(bin_paths, d, e.PATH),
     WEBSTACK_HOME |-> "stack",
     PKG_CONFIG_PATH |-> "deps/lib/pkgconfig"]

NoEnv ==
    [resolved |-> FALSE, LD_LIBRARY_PATH |-> <<>>, PATH |-> <<>>,
     WEBSTACK_HOME |-> "", PKG_CONFIG_PATH |-> ""]

\* The environment get_environment returns when env.sh was sourced:
\* os.environ.copy(), then every key=value line that bash's env printed,
\* which is the inherited environment with what env.sh exported on top.
\* f.envsh_sets = the variables env.sh exports.
EnvVars == {"LD_LIBRARY_PATH", "PATH", "WEBSTACK_HOME", "PKG_CONFIG_PATH"}

sourced_environment(f, e) ==
    [resolved |-> TRUE,
     LD_LIBRARY_PATH |-> IF "LD_LIBRARY_PATH" \in f.envsh_sets THEN <<"deps/lib">>
                         ELSE e.LD_LIBRARY_PATH.val,
     PATH |-> IF "PATH" \in f.envsh_sets THEN <<"deps/bin">> ELSE e.PATH.val,
     WEBSTACK_HOME |-> IF "WEBSTACK_HOME" \in f.envsh_sets THEN "stack" ELSE "",
     PKG_CONFIG_PATH |-> IF "PKG_CONFIG_PATH" \in f.envsh_sets THEN "deps/lib/pkgconfig"
                         ELSE ""]

\* the mapping get_environment returns, by the strategy it took
environment_of(strategy, f, d, e) ==
    IF strategy = "env.sh" THEN sourced_environment(f, e)
    ELSE get_fallback_environment(d, e)

NoConf == [exists |-> FALSE, text |-> <<>>]

\* os.environ of a desktop session
DefaultOsEnv ==
    [LD_LIBRARY_PATH |-> [set |-> FALSE, val |-> <<>>],
     PATH |-> [set |-> TRUE, val |-> <<"/usr/bin">>]]

----------------------------------------------------------------------------
(* update_nginx_port and create_nginx_config *)

NginxPortMin == 1024
NginxPortMax == 65535
NginxPortDefault == 8080

\* the spin box accepts every port between the two ends of its range
Ports == {NginxPortMin, NginxPortDefault, NginxPortMax}

MysqlPortMin == 1024
MysqlPortMax == 65535
MysqlPortDefault == 3306

MysqlPorts == {MysqlPortMin, MysqlPortDefault, MysqlPortMax}

\* the port spin boxes as create_settings_tab sets them
DefaultSpin == [nginx_port |-> NginxPortDefault, mysql_port |-> MysqlPortDefault]

\* f'{port}': the decimal numeral of a port
Format(port) ==
    CASE port = NginxPortMin -> "1024"
      [] port = NginxPortDefault -> "8080"
      [] port = MysqlPortDefault -> "3306"
      [] OTHER -> "65535"

\* the tokens that \d+ matches as a whole
Digits == {Format(p) : p \in Ports \cup MysqlPorts} \cup {"65", "3307"}

IsDigits(tok) == tok \in Digits

\* the tokens that \s matches
IsSpace(tok) == tok \in {" ", "\t", "\n"}

\* how many whitespace tokens start at position i
RECURSIVE Spaces(_, _)
Spaces(text, i) ==
    IF i <= Len(text) /\ IsSpace(text[i]) THEN 1 + Spaces(text, i + 1) ELSE 0

\* the number of tokens r'listen\s+\d+;' matches at position i, 0 for none
MatchLen(text, i) ==
    IF text[i] # "listen" THEN 0
    ELSE LET k == Spaces(text, i + 1) IN
         IF /\ k >= 1
            /\ i + k + 2 <= Len(text)
            /\ IsDigits(text[i + k + 1])
            /\ text[i + k + 2] = ";"
         THEN k + 3 ELSE 0

\* re.sub(r'listen\s+\d+;', repl, text) from position i on: every match,
\* left to right, is replaced and everything else is copied
RECURSIVE re_sub(_, _, _)
re_sub(text, i, repl) ==
    IF i > Len(text) THEN <<>>
    ELSE LET m == MatchLen(text, i) IN
         IF m > 0 THEN repl \o re_sub(text, i + m, repl)
         ELSE <<text[i]>> \o re_sub(text, i + 1, repl)

\* f'listen {port};'
ListenText(port) == <<"listen", " ", Format(port), ";">>

\* config_content of create_nginx_config.  The directives left out (root,
\* index, the location blocks) hold neither the word listen nor a numeral.
Template(port) ==
    <<"events", " ", "{", "\n",
      "worker_connections", " ", "1024", ";", "\n",
      "}", "\n",
      "http", " ", "{", "\n",
      "keepalive_timeout", " ", "65", ";", "\n",
      "server", " ", "{", "\n">>
    \o ListenText(port) \o
    <<"\n",
      "server_name", " ", "localhost", ";", "\n",
      "}", "\n",
      "}", "\n">>

\* open(path, 'w') and f.write(text): the file as it is afterwards.  When
\* the write is interrupted (f.write raises OSError, or the process is
\* killed) the file has been truncated by open and nothing was written.
write_text(s, text) ==
    IF s.fs.writes = "ok"
    THEN [file |-> [exists |-> TRUE, text |-> text], raised |-> FALSE]
    ELSE [file |-> [exists |-> TRUE, text |-> <<>>], raised |-> TRUE]

\* create_nginx_config and update_nginx_port return [s, raised]: neither
\* has a try of its own
create_nginx_config(s, port) ==
    LET w == write_text(s, Template(port))
        written == [s EXCEPT !.nginx_conf = w.file]
    IN  IF w.raised
        THEN [s |-> written, raised |-> TRUE]
        ELSE [s |-> log_message(written,
                       <<"Created Nginx configuration with port", "", Format(port)>>),
              raised |-> FALSE]

update_nginx_port(s, port) ==
    IF ~s.nginx_conf.exists
    THEN create_nginx_config(s, port)
    ELSE LET w == write_text(s, re_sub(s.nginx_conf.text, 1, ListenText(port)))
             written == [s EXCEPT !.nginx_conf = w.file]
         IN  IF w.raised
             THEN [s |-> written, raised |-> TRUE]
             ELSE [s |-> log_message(written, <<"Updated Nginx port to", "", Format(port)>>),
                   raised |-> FALSE]

----------------------------------------------------------------------------
(* update_mysql_port and fix_mysql_socket *)

\* how many tokens r'port\s*=\s*\d+' matches at position i, 0 for none
PortMatchLen(text, i) ==
    IF text[i] # "port" THEN 0
    ELSE LET a == Spaces(text, i + 1)
             e == i + a + 1
         IN  IF e <= Len(text) /\ text[e] = "="
             THEN LET b == Spaces(text, e + 1) IN
                  IF e + b + 1 <= Len(text) /\ IsDigits(text[e + b + 1])
                  THEN a + b + 3 ELSE 0
             ELSE 0

\* re.sub(r'port\s*=\s*\d+', repl, text) from position i on
RECURSIVE re_sub_port(_, _, _)
re_sub_port(text, i, repl) ==
    IF i > Len(text) THEN <<>>
    ELSE LET m == PortMatchLen(text, i) IN
         IF m > 0 THEN repl \o re_sub_port(text, i + m, repl)
         ELSE <<text[i]>> \o re_sub_port(text, i + 1, repl)

\* f'port = {port}'
PortText(port) == <<"port", " ", "=", " ", Format(port)>>

\* my_cnf_content of fix_mysql_socket.  The lines left out (the paths, the
\* innodb sizes, the other client sections) hold no port.
MyCnfTemplate(current_port) ==
    <<"[client]", "\n",
      "port", "=", Format(current_port), "\n",
      "socket", "=", "mariadb.sock", "\n",
      "[mysqld]", "\n",
      "port", "=", Format(current_port), "\n",
      "socket", "=", "mariadb.sock", "\n",
      "skip-networking", "\n",
      "bind-address", "=", "127.0.0.1", "\n",
      "[mysqladmin]", "\n",
      "socket", "=", "mariadb.sock", "\n">>

\* my.cnf as the installer's repair wrote it, when the file is there
CnfFor(f) ==
    IF f.my_cnf
    THEN [exists |-> TRUE, text |-> MyCnfTemplate(MysqlPortDefault)]
    ELSE NoConf

\* fix_mysql_socket: current_port is the value of the port spin box.  Its
\* try catches everything, so it returns the handler state only.
fix_mysql_socket(s, current_port) ==
    IF ~s.fs.mariadb_dir
    THEN \* open raises FileNotFoundError: the directory is made after the write
         Failed(s, "Error fixing MySQL socket", "", "FileNotFoundError")
    ELSE LET w == write_text(s, MyCnfTemplate(current_port))
             written == [s EXCEPT !.mysql_cnf = w.file, !.fs.my_cnf = TRUE]
         IN  IF w.raised
             THEN Failed(written, "Error fixing MySQL socket", "", "OSError")
             ELSE Emit([log_message(written,
                           <<"Created comprehensive MySQL configuration file", "", "">>)
                          EXCEPT !.fs.mariadb_logs = TRUE, !.fs.mariadb_tmp = TRUE,
                                 !.fs.mysql_data = IF @ = "absent" THEN "empty" ELSE @],
                       Ev("dialog", "", "information", s))

\* update_mysql_port returns [s, raised]
update_mysql_port(s, port, current_port) ==
    IF ~s.mysql_cnf.exists
    THEN [s |-> fix_mysql_socket(s, current_port), raised |-> FALSE]
    ELSE LET once == re_sub_port(s.mysql_cnf.text, 1, PortText(port))
             twice == re_sub_port(once, 1, PortText(port))
             w == write_text(s, twice)
             written == [s EXCEPT !.mysql_cnf = w.file]
         IN  IF w.raised
             THEN [s |-> written, raised |-> TRUE]
             ELSE [s |-> log_message(written, <<"Updated MySQL port to", "", Format(port)>>),
                   raised |-> FALSE]

----------------------------------------------------------------------------
(* apply_port_changes: sp = the values of the two port spin boxes *)

\* applying the ports and restarting nginx for them to take effect
apply_port_changes_restarting(s0, sp) ==
    LET c == Call(s0, "apply_port_changes", "", 0)
        n == update_nginx_port(c, sp.nginx_port)
        m == update_mysql_port(n.s, sp.mysql_port, sp.mysql_port)
    IN  IF n.raised \/ m.raised
        THEN Failed(m.s, "Error applying port changes", "", "OSError")
        ELSE singleShot(log_message(m.s, <<"Applied port changes", Format(sp.nginx_port),
                                           Format(sp.mysql_port)>>),
                        1000, "start_service", "nginx", 0)

apply_port_changes(s0, sp) ==
    LET c == Call(s0, "apply_port_changes", "", 0)
        n == update_nginx_port(c, sp.nginx_port)
        m == update_mysql_port(n.s, sp.mysql_port, sp.mysql_port)
    IN  IF n.raised
        THEN Failed(n.s, "Error applying port changes", "", "OSError")
        ELSE IF m.raised
        THEN Failed(m.s, "Error applying port changes", "", "OSError")
        ELSE Emit(log_message(m.s, <<"Applied port changes", Format(sp.nginx_port),
                                     Format(sp.mysql_port)>>),
                  Ev("dialog", "", "information", s0))

----------------------------------------------------------------------------
(* run_diagnostics and check_icu_via_php.  The findings appended to        *)
(* diag_output are pairs <<check, finding>>.                               *)

\* returns [s, result]: everything it raises is caught and returned as text
check_icu_via_php(s, o) ==
    LET ge == get_environment(s, o) IN
    IF ge.raised
    THEN [s |-> ge.s, result |-> "Error testing ICU"]
    ELSE IF ~CurResolve(ge.s.fs).php
    THEN [s |-> ge.s, result |-> "PHP binary not found"]
    ELSE [s |-> Emit([ge.s EXCEPT !.now = @ + o.block],
                     Ev("admin", "php -r", IF o.rc = 0 THEN "ok" ELSE "failed", ge.s)),
          result |-> IF o.rc = 0 THEN "intl extension loaded" ELSE "intl extension not loaded"]

\* php_dir.iterdir(), in the order the model lists the directories
VersionList == <<"8.3", "8.4">>

\* the findings that come from looking at files only
FileFindings(f, cnf) ==
    <<<<"env.sh", IF EnvShExists(f) THEN "found" ELSE "not found">>,
      <<"Nginx", IF f.nginx_bin # "absent" THEN "found" ELSE "not found">>,
      <<"MariaDB safe", IF f.mysql_safe # "absent" THEN "found" ELSE "not found">>,
      <<"MySQL configuration",
        IF ~cnf.exists THEN "missing"
        ELSE IF "/tmp/mysql.sock" \in Range(cnf.text) THEN "system socket"
        ELSE "isolated socket">>,
      <<"MySQL socket path",
        IF ~cnf.exists THEN "missing"
        ELSE IF "mariadb.sock" \in Range(cnf.text) THEN "correctly configured"
        ELSE "not properly configured">>>>
    \o LET installed == SelectSeq(VersionList, LAMBDA v : f.vers[v].dir) IN
       [i \in 1..Len(installed) |->
          <<installed[i],
            IF f.vers[installed[i]].php THEN "binary found" ELSE "binary missing">>]
    \o <<<<"Current PHP",
           IF ~CurExists(f) THEN "does not exist"
           ELSE IF f.cur.kind = "link" THEN f.cur.target
           ELSE "not a symlink">>>>

\* returns [s, out]: the handler state and the text of diag_output
run_diagnostics(s0, o) ==
    LET c == Call(s0, "run_diagnostics", "", 0)
        icu == check_icu_via_php(c, o)
    IN  [s |-> icu.s,
         out |-> FileFindings(c.fs, c.mysql_cnf) \o <<<<"ICU", icu.result>>>>]

----------------------------------------------------------------------------
(* fix_php_symlinks, initialize_mysql_database and auto_repair             *)

\* php/ exists when something is in it
PhpDirExists(f) == f.cur.kind # "absent" \/ \E v \in Versions : f.vers[v].dir

\* the orders in which php_dir.iterdir() may list the version directories
DirOrders == {<<"8.3", "8.4">>, <<"8.4", "8.3">>}

\* the directories fix_php_symlinks accepts: a version name and bin/php
ValidVersions(f, order) == SelectSeq(order, LAMBDA v : f.vers[v].dir /\ f.vers[v].php)

\* current_link.unlink() for a link (dangling or not), shutil.rmtree for a
\* real directory, which goes with all it holds; nothing when it is absent
RemoveCurrent(s) ==
    IF s.fs.cur.kind = "absent" THEN s
    ELSE Emit([s EXCEPT !.fs.cur = [kind |-> "absent", target |-> ""],
                        !.fs.curdir = NoDir],
              Ev("remove", "php", IF s.fs.cur.kind = "link" THEN "unlink" ELSE "rmtree", s))

\* fix_php_symlinks, linking to the last version listed
fix_php_symlinks_last(s, order) ==
    LET php_versions == ValidVersions(s.fs, order) IN
    IF ~PhpDirExists(s.fs)
    THEN Warned(s, "php", "PHP directory not found!")
    ELSE IF php_versions = <<>>
    THEN Warned(s, "php", "No valid PHP installations found!")
    ELSE LET removed == RemoveCurrent(s)
             target_version == php_versions[Len(php_versions)]
             linked == [removed EXCEPT !.fs.cur = [kind |-> "link", target |-> target_version]]
         IN  Emit(log_message(linked, <<"Fixed PHP symlink to version", target_version, "">>),
                  Ev("dialog", "php", "information", s))

fix_php_symlinks(s, order) ==
    LET php_versions == ValidVersions(s.fs, order) IN
    IF ~PhpDirExists(s.fs)
    THEN Warned(s, "php", "PHP directory not found!")
    ELSE IF php_versions = <<>>
    THEN Warned(s, "php", "No valid PHP installations found!")
    ELSE LET removed == RemoveCurrent(s)
             target_version == php_versions[1]
             linked == [removed EXCEPT !.fs.cur = [kind |-> "link", target |-> target_version]]
         IN  Emit(log_message(linked, <<"Fixed PHP symlink to version", target_version, "">>),
                  Ev("dialog", "php", "information", s))

\* its try catches everything, so it returns the handler state only
initialize_mysql_database(s, o) ==
    IF ~s.fs.mysql_install_db
    THEN log_message(s, <<"MySQL install script not found", "", "">>)
    ELSE LET ge == get_environment(s, o) IN
         IF ge.raised
         THEN log_message(ge.s, <<"Error initializing MySQL database", "", ge.err>>)
         ELSE LET ran == Emit([ge.s EXCEPT !.now = @ + o.block],
                              Ev("admin", "mariadb-install-db",
                                 IF o.rc = 0 THEN "ok" ELSE "failed", ge.s)) IN
              IF o.rc = 0
              THEN log_message([ran EXCEPT !.fs.mysql_data = "populated"],
                               <<"MySQL database initialized successfully", "", "">>)
              ELSE log_message(ran, <<"MySQL database initialization failed", "", "">>)

\* the required directories that are missing, in the order of required_dirs
MissingDirs(f) ==
    SelectSeq(<<"nginx/logs", "mariadb/logs", "mariadb/tmp", "mariadb/data", "www">>,
              LAMBDA d : CASE d = "nginx/logs" -> ~f.nginx_logs
                           [] d = "mariadb/logs" -> ~f.mariadb_logs
                           [] d = "mariadb/tmp" -> ~f.mariadb_tmp
                           [] d = "mariadb/data" -> f.mysql_data = "absent"
                           [] OTHER -> ~f.www)

\* returns [s, out]: the handler state and the lines appended to diag_output
auto_repair(s0, sp, o, order) ==
    LET c == Call(s0, "auto_repair", order[1], 0)
        p == fix_php_symlinks(c, order)
        m == fix_mysql_socket(p, sp.mysql_port)
        missing == MissingDirs(m.fs)
        \* dir_path.mkdir(parents=True, exist_ok=True)
        d == [m EXCEPT !.fs.nginx_logs = TRUE, !.fs.mariadb_dir = TRUE,
                       !.fs.mariadb_logs = TRUE, !.fs.mariadb_tmp = TRUE,
                       !.fs.mysql_data = IF @ = "absent" THEN "empty" ELSE @,
                       !.fs.www = TRUE]
        empty == d.fs.mysql_data = "empty"
    IN  [s |-> IF empty THEN initialize_mysql_database(d, o) ELSE d,
         out |-> <<<<"Auto-Repair", "">>>>
                 \o [i \in 1..Len(missing) |-> <<"Created directory", missing[i]>>]
                 \o (IF empty THEN <<<<"Initializing MySQL database...", "">>>> ELSE <<>>)
                 \o <<<<"Auto-repair completed", "">>>>]

----------------------------------------------------------------------------
(* Launch: __init__ (init_ui, load_settings) and main; reset_settings      *)

\* the check boxes as load_settings sets them from an empty settings store
DefaultCfg ==
    [auto_start |-> FALSE, auto_load_env |-> TRUE,
     auto_clean_logs |-> FALSE, auto_clean_temp |-> FALSE]

\* populate_php_versions.  The combo box emits currentTextChanged, which is
\* connected to switch_php_version, when the first item is added to it; the
\* clear() before emits it with an empty text, on which the slot returns.
populate_php_versions(s, o, order) ==
    LET items == ValidVersions(s.fs, order)
        linked == CurExists(s.fs) /\ s.fs.cur.kind = "link"
        \* the first item added, or else current_link.resolve().name
        first == IF items # <<>> THEN items[1] ELSE s.fs.cur.target
    IN  IF items # <<>> \/ linked
        THEN switch_php_version(s, first, o)
        ELSE s

\* the two steps load_settings and main both end with: load_environment when
\* auto_load_env is set, then singleShot(1000, start_all_services) when
\* auto_start is set.  returns [s, raised]
auto_load_and_start(s, cf, o, by) ==
    LET le == IF cf.auto_load_env THEN load_environment(s, o)
                                  ELSE [s |-> s, raised |-> FALSE]
    IN  IF le.raised
        THEN [s |-> le.s, raised |-> TRUE]
        ELSE [s |-> IF cf.auto_start
                    THEN singleShot(le.s, 1000, "start_all_services", "", by)
                    ELSE le.s,
              raised |-> FALSE]

\* load_settings: cf = the stored settings; returns [s, raised]
load_settings(s0, cf, o, order) ==
    LET c == Call(s0, "load_settings", "", 0) IN
    auto_load_and_start(populate_php_versions(c, o, order), cf, o, CallId(c))

\* an exception leaving __init__ or main ends the process: nothing that was
\* scheduled is delivered
Crashed(s) == Unhandled([s EXCEPT !.timers = <<>>], "main")

\* main: the window is constructed, then the environment is loaded and the
\* start of all services scheduled, from the same stored settings
main(s0, cf, o, order) ==
    LET ls == load_settings(Call(s0, "__init__", "", 0), cf, o, order)
        m == Call(ls.s, "main", "", 0)
        r == auto_load_and_start(m, cf, o, CallId(m))
    IN  IF ls.raised THEN Crashed(ls.s)
        ELSE IF r.raised THEN Crashed(r.s)
        ELSE r.s

\* reset_settings, confirmed by the user: settings.clear(), load_settings()
\* on the defaults, and a dialog.  returns [s, raised]
reset_settings(s0, o, order) ==
    LET c == Call(s0, "reset_settings", "", 0)
        ls == load_settings(c, DefaultCfg, o, order)
    IN  IF ls.raised
        THEN [s |-> ls.s, raised |-> TRUE]
        ELSE [s |-> Emit(ls.s, Ev("dialog", "", "information", ls.s)), raised |-> FALSE]

----------------------------------------------------------------------------
(* The event loop *)

St == [fs |-> fs, log |-> log, trace |-> trace, timers |-> timers, now |-> now,
       nginx_conf |-> nginx_conf, mysql_cnf |-> mysql_cnf]

Apply(s) ==
    /\ fs' = s.fs
    /\ log' = s.log
    /\ trace' = s.trace
    /\ timers' = s.timers
    /\ now' = s.now
    /\ nginx_conf' = s.nginx_conf
    /\ mysql_cnf' = s.mysql_cnf

Slowed(o) == slow' = IF o.block > 0 THEN slow - 1 ELSE slow

UserOp(s, o) ==
    /\ nops > 0
    /\ nops' = nops - 1
    /\ Apply(s)
    /\ Slowed(o)
    /\ UNCHANGED <<cfg, status, probes, others>>

DoStart(service) == \E o \in Outcomes : UserOp(start_service(St, service, o, 0), o)

DoStop(service) == \E o \in Outcomes : UserOp(stop_service(St, service, o, 0), o)

DoRestart(service) == \E o \in Outcomes : UserOp(restart_service(St, service, o), o)

DoStartAll == \E o \in Outcomes : UserOp(start_all_services(St, cfg, o, 0), o)

DoStopAll == \E o \in Outcomes : UserOp(stop_all_services(St, cfg, o, 0), o)

DoRestartAll == \E o \in Outcomes : UserOp(restart_all_services(St, cfg, o), o)

DoSwitch(version) == \E o \in Outcomes : UserOp(switch_php_version(St, version, o), o)

\* monitor_timer.timeout -> update_status, every 2000 ms
Probe ==
    /\ probes > 0
    /\ probes' = probes - 1
    /\ \E o \in Outcomes :
          LET u == update_status(St, o) IN
          /\ Apply(u.s)
          /\ status' = u.labels
          /\ Slowed(o)
    /\ UNCHANGED <<cfg, nops, others>>

\* the timers that have expired, and the one the loop delivers first:
\* earliest expiry, creation order among equals
Due == {i \in 1..Len(timers) : timers[i].due <= now}

First == CHOOSE i \in Due : \A j \in Due :
            \/ timers[i].due < timers[j].due
            \/ timers[i].due = timers[j].due /\ i <= j

Remove(q, i) == SubSeq(q, 1, i - 1) \o SubSeq(q, i + 1, Len(q))

RunTimer(s, tm, o) ==
    CASE tm.act = "start_service" -> start_service(s, tm.arg, o, tm.by)
      [] tm.act = "start_all_services" -> start_all_services(s, cfg, o, tm.by)
      [] tm.act = "clean_logs" -> clean_logs(s, tm.by)
      [] OTHER -> clean_temp_files(s, tm.by)

FireTimer ==
    /\ Due # {}
    /\ \E o \in Outcomes :
          /\ Apply(RunTimer([St EXCEPT !.timers = Remove(timers, First)], timers[First], o))
          /\ Slowed(o)
    /\ UNCHANGED <<cfg, status, nops, probes, others>>

\* the loop is idle until the next timer expires
Tick ==
    /\ timers # <<>>
    /\ Due = {}
    /\ now < MaxTicks * 1000
    /\ now' = now + 1000
    /\ UNCHANGED <<fs, cfg, log, trace, timers, status, nops, probes, slow,
                   nginx_conf, mysql_cnf, others>>

\* update_nginx_port called with the value of the port spin box
DoSetNginxPort(port) ==
    /\ nops > 0
    /\ nops' = nops - 1
    /\ LET c == Call(St, "update_nginx_port", Format(port), 0)
           r == update_nginx_port(c, port)
       IN  Apply(IF r.raised THEN Unhandled(r.s, "update_nginx_port") ELSE r.s)
    /\ UNCHANGED <<cfg, status, probes, slow, others>>

\* update_mysql_port called with a port, whatever the spin box shows
DoSetMysqlPort(port) ==
    /\ nops > 0
    /\ nops' = nops - 1
    /\ LET c == Call(St, "update_mysql_port", Format(port), 0)
           r == update_mysql_port(c, port, spin.mysql_port)
       IN  Apply(IF r.raised THEN Unhandled(r.s, "update_mysql_port") ELSE r.s)
    /\ UNCHANGED <<cfg, status, probes, slow, others>>

\* apply_ports_btn.clicked
DoApplyPorts ==
    /\ nops > 0
    /\ nops' = nops - 1
    /\ Apply(apply_port_changes(St, spin))
    /\ UNCHANGED <<cfg, status, probes, slow, others>>

\* run_diag_btn.clicked
DoDiagnostics ==
    /\ nops > 0
    /\ nops' = nops - 1
    /\ \E o \in Outcomes :
          LET r == run_diagnostics(St, o) IN
          /\ Apply(r.s)
          /\ diag_output' = r.out
          /\ Slowed(o)
    /\ UNCHANGED <<cfg, status, probes, spin, osenv, dirs, env>>

\* fix_symlinks_btn.clicked; the call event carries the directory that
\* iterdir() listed first
DoFixSymlinks ==
    /\ nops > 0
    /\ nops' = nops - 1
    /\ \E order \in DirOrders :
          Apply(fix_php_symlinks(Call(St, "fix_php_symlinks", order[1], 0), order))
    /\ UNCHANGED <<cfg, status, probes, slow, others>>

\* repair_btn.clicked
DoAutoRepair ==
    /\ nops > 0
    /\ nops' = nops - 1
    /\ \E o \in Outcomes, order \in DirOrders :
          LET r == auto_repair(St, spin, o, order) IN
          /\ Apply(r.s)
          /\ diag_output' = diag_output \o r.out
          /\ Slowed(o)
    /\ UNCHANGED <<cfg, status, probes, spin, osenv, dirs, env>>

\* load_env_btn.clicked -> load_environment; env is the mapping it returns
DoLoadEnvironment ==
    /\ nops > 0
    /\ nops' = nops - 1
    /\ \E o \in Outcomes :
          LET c == Call(St, "load_environment", "", 0)
              ge == get_environment(c, o)
              le == load_environment(c, o)
          IN  /\ Apply(IF le.raised THEN Unhandled(le.s, "load_environment") ELSE le.s)
              /\ env' = IF ge.raised THEN env
                        ELSE environment_of(ge.env, fs, dirs, osenv)
              /\ Slowed(o)
    /\ UNCHANGED <<cfg, status, probes, spin, diag_output, osenv, dirs>>

\* the program is started: nothing has run yet
DoLaunch ==
    /\ trace = <<>>
    /\ \E o \in Outcomes, order \in DirOrders :
          /\ Apply(main(St, cfg, o, order))
          /\ Slowed(o)
    /\ UNCHANGED <<cfg, status, nops, probes, others>>

\* the program is running: it was launched and did not crash
Running ==
    /\ trace # <<>>
    /\ \A i \in 1..Len(trace) : ~(trace[i].ev = "unhandled" /\ trace[i].arg = "main")

\* reset_btn.clicked, answered with Yes
DoResetSettings ==
    /\ Running
    /\ nops > 0
    /\ nops' = nops - 1
    /\ \E o \in Outcomes, order \in DirOrders :
          LET r == reset_settings(St, o, order) IN
          /\ Apply(IF r.raised THEN Unhandled(r.s, "reset_settings") ELSE r.s)
          /\ Slowed(o)
    /\ cfg' = DefaultCfg
    /\ spin' = DefaultSpin
    /\ UNCHANGED <<status, probes, diag_output, osenv, dirs, env>>

\* get_fallback_environment applied to the inherited environment
DoFallback ==
    /\ ~env.resolved
    /\ env' = get_fallback_environment(dirs, osenv)
    /\ UNCHANGED <<fs, cfg, log, trace, timers, now, status, nops, probes, slow,
                   nginx_conf, mysql_cnf, spin, diag_output, osenv, dirs>>

----------------------------------------------------------------------------
(* Initial states *)

\* a complete installation with nothing running
BaseFs ==
    [envsh |-> "absent", envsh_sets |-> {},
     nginx_bin |-> "ok", nginx_pid |-> "absent",
     vers |-> [v \in Versions |-> FullDir],
     cur |-> [kind |-> "link", target |-> "8.3"],
     curdir |-> NoDir,
     mysql_safe |-> "ok", mysql_admin |-> TRUE, mysql_sock |-> FALSE,
     mysql_pid |-> "absent", my_cnf |-> TRUE,
     mariadb_dir |-> TRUE, mariadb_logs |-> TRUE, startup_log |-> "absent",
     service_logs |-> FALSE, tmp_files |-> FALSE,
     nginx_logs |-> TRUE, mariadb_tmp |-> TRUE, www |-> TRUE,
     mysql_data |-> "populated", mysql_install_db |-> TRUE,
     writes |-> "ok"]

\* states of one php/<v> directory
VerStates ==
    {NoDir,
     [NoDir EXCEPT !.dir = TRUE],
     [NoDir EXCEPT !.dir = TRUE, !.php = TRUE],
     [FullDir EXCEPT !.conf = FALSE]}
    \cup {[FullDir EXCEPT !.fpm = "noexec"]}
    \cup {[FullDir EXCEPT !.pid = p] : p \in PidStates}

CurStates ==
    {[kind |-> "absent", target |-> ""]}
    \cup {[kind |-> "link", target |-> v] : v \in Versions}
    \cup {[kind |-> "dir", target |-> ""]}

EnvShStates == {"absent", "ok", "nonzero", "oserror"}

NginxFs == {[BaseFs EXCEPT !.nginx_bin = b, !.nginx_pid = p] :
               b \in ExecStates, p \in PidStates}

PhpFs == {[BaseFs EXCEPT !.cur = c, !.vers = [v \in Versions |-> IF v = "8.3" THEN a ELSE b],
                         !.curdir = IF c.kind = "dir" THEN d ELSE NoDir] :
             c \in CurStates, a \in VerStates, b \in {NoDir, FullDir},
             d \in {FullDir, [NoDir EXCEPT !.dir = TRUE]}}

\* what starting mariadb looks at, and what stopping and probing it look at
MysqlFs ==
    {[BaseFs EXCEPT !.mysql_safe = sf, !.my_cnf = cn, !.mariadb_logs = lg,
                    !.startup_log = IF lg THEN sl ELSE "absent"] :
        sf \in ExecStates, cn \in BOOLEAN, lg \in BOOLEAN, sl \in {"absent", "old"}}
    \cup {[BaseFs EXCEPT !.mysql_admin = ad, !.mysql_sock = so, !.mysql_pid = p] :
        ad \in BOOLEAN, so \in BOOLEAN, p \in PidStates}

EnvFs == {[BaseFs EXCEPT !.envsh = e, !.mysql_sock = so] : e \in EnvShStates, so \in BOOLEAN}

FsStates == EnvFs \cup NginxFs \cup PhpFs \cup MysqlFs

NoStatus == [nginx |-> "", php |-> "", php_version |-> "", mysql |-> ""]

Init ==
    /\ fs \in FsStates
    /\ cfg = DefaultCfg
    /\ log = <<>>
    /\ trace = <<>>
    /\ timers = <<>>
    /\ now = 0
    /\ status = NoStatus
    /\ nops = MaxOps
    /\ probes = MaxProbes
    /\ slow = MaxSlow
    /\ nginx_conf = [exists |-> TRUE, text |-> Template(NginxPortDefault)]
    /\ osenv = DefaultOsEnv
    /\ dirs = CandidateDirs
    /\ env = NoEnv
    /\ mysql_cnf = CnfFor(fs)
    /\ spin = DefaultSpin
    /\ diag_output = <<>>

Next ==
    \/ \E service \in Services : DoStart(service)
    \/ \E service \in Services : DoStop(service)
    \/ \E version \in Versions : DoSwitch(version)
    \/ Probe
    \/ FireTimer
    \/ Tick

Spec == Init /\ [][Next]_vars

(* The orchestrator: a complete installation, every multi-step operation   *)
(* and the clock.                                                          *)
SchedFs == {[BaseFs EXCEPT !.envsh = e, !.mysql_sock = TRUE] : e \in {"absent", "ok"}}

SchedCfg == {DefaultCfg,
             [auto_start |-> FALSE, auto_load_env |-> FALSE,
              auto_clean_logs |-> TRUE, auto_clean_temp |-> TRUE]}

InitSched ==
    /\ fs \in SchedFs
    /\ cfg \in SchedCfg
    /\ log = <<>>
    /\ trace = <<>>
    /\ timers = <<>>
    /\ now = 0
    /\ status = NoStatus
    /\ nops = MaxOps
    /\ probes = 0
    /\ slow = MaxSlow
    /\ nginx_conf = [exists |-> TRUE, text |-> Template(NginxPortDefault)]
    /\ osenv = DefaultOsEnv
    /\ dirs = CandidateDirs
    /\ env = NoEnv
    /\ mysql_cnf = CnfFor(fs)
    /\ spin = DefaultSpin
    /\ diag_output = <<>>

NextSched ==
    \/ DoStartAll
    \/ DoStopAll
    \/ DoRestartAll
    \/ FireTimer
    \/ Tick

SpecSched == InitSched /\ [][NextSched]_vars

(* start_all_services under the periodic status probe *)
InitStartAll ==
    /\ fs \in SchedFs
    /\ cfg \in SchedCfg
    /\ log = <<>>
    /\ trace = <<>>
    /\ timers = <<>>
    /\ now = 0
    /\ status = NoStatus
    /\ nops = MaxOps
    /\ probes = MaxProbes
    /\ slow = MaxSlow
    /\ nginx_conf = [exists |-> TRUE, text |-> Template(NginxPortDefault)]
    /\ osenv = DefaultOsEnv
    /\ dirs = CandidateDirs
    /\ env = NoEnv
    /\ mysql_cnf = CnfFor(fs)
    /\ spin = DefaultSpin
    /\ diag_output = <<>>

NextStartAll ==
    \/ DoStartAll
    \/ Probe
    \/ FireTimer
    \/ Tick

SpecStartAll == InitStartAll /\ [][NextStartAll]_vars

----------------------------------------------------------------------------
(* Port changes: nginx.conf is absent, as create_nginx_config wrote it, or  *)
(* an existing file of up to MaxLines lines.                               *)


\* the forms of a listen directive, and lines that are not one
ListenLines ==
    {<<"listen", " ", "8080", ";", "\n">>,
     <<"listen", "\t", "8080", ";", "\n">>,
     <<"listen", " ", "8080", " ", "default_server", ";", "\n">>,
     <<"listen", " ", "127.0.0.1:", "8080", ";", "\n">>}

OtherLines ==
    {<<"server_name", " ", "localhost", ";", "\n">>,
     <<"#", " ", "listen", " ", "8080", ";", "\n">>}

ConfLines == ListenLines \cup OtherLines

ExistingConfs ==
    {[exists |-> TRUE, text |-> Flatten(q)] :
        q \in UNION {[1..n -> ConfLines] : n \in 1..MaxLines}}

NginxConfs ==
    {NoConf, [exists |-> TRUE, text |-> Template(NginxPortDefault)]} \cup ExistingConfs

\* the lines of an existing my.cnf: a section header, the port setting in
\* two spellings, another setting whose name ends in port, the socket
CnfLines ==
    {<<"[mysqld]", "\n">>,
     <<"port", "=", "3306", "\n">>,
     <<"port", " ", "=", " ", "3306", "\n">>,
     <<"report_", "port", "=", "3307", "\n">>,
     <<"socket", "=", "mariadb.sock", "\n">>}

ExistingCnfs ==
    {[exists |-> TRUE, text |-> Flatten(q)] :
        q \in UNION {[1..n -> CnfLines] : n \in 1..MaxLines}}

GeneratedCnf == [exists |-> TRUE, text |-> MyCnfTemplate(MysqlPortDefault)]

GeneratedConf == [exists |-> TRUE, text |-> Template(NginxPortDefault)]

MysqlCnfs == {NoConf, GeneratedCnf} \cup ExistingCnfs

\* the files and spin boxes a behaviour starts from: every nginx.conf, or
\* every my.cnf under every value of the database spin box, or the two
\* files absent or generated on a disk where writes can be interrupted
PortInits ==
    {[n |-> n, m |-> GeneratedCnf, f |-> BaseFs, sp |-> DefaultSpin] : n \in NginxConfs}
    \cup
    {[n |-> GeneratedConf, m |-> m, f |-> [BaseFs EXCEPT !.my_cnf = m.exists],
      sp |-> [DefaultSpin EXCEPT !.mysql_port = q]] :
        m \in MysqlCnfs, q \in MysqlPorts}
    \cup
    {[n |-> n, m |-> IF d THEN m ELSE NoConf,
      f |-> [BaseFs EXCEPT !.my_cnf = d /\ m.exists, !.mariadb_dir = d, !.writes = w],
      sp |-> DefaultSpin] :
        n \in {NoConf, GeneratedConf}, m \in {NoConf, GeneratedCnf},
        d \in BOOLEAN, w \in {"ok", "interrupted"}}

\* two port changes in a row
InitPort ==
    /\ \E i \in PortInits :
          /\ fs = i.f
          /\ nginx_conf = i.n
          /\ mysql_cnf = i.m
          /\ spin = i.sp
    /\ cfg = DefaultCfg
    /\ log = <<>>
    /\ trace = <<>>
    /\ timers = <<>>
    /\ now = 0
    /\ status = NoStatus
    /\ nops = MaxOps + 1
    /\ probes = 0
    /\ slow = 0
    /\ diag_output = <<>>
    /\ osenv = DefaultOsEnv
    /\ dirs = CandidateDirs
    /\ env = NoEnv

NextPort ==
    \/ \E port \in Ports : DoSetNginxPort(port)
    \/ \E port \in MysqlPorts : DoSetMysqlPort(port)
    \/ DoApplyPorts

SpecPort == InitPort /\ [][NextPort]_vars

----------------------------------------------------------------------------
(* The fallback resolver on every subset of the candidate directories and  *)
(* every inherited LD_LIBRARY_PATH and PATH of up to MaxInherited entries. *)

\* what an inherited search path may list: a directory that is gone, and a
\* private one
InheritedDirs == {"/opt/gone", "deps/bin"}

Inherited ==
    {[set |-> FALSE, val |-> <<>>]} \cup
    {[set |-> TRUE, val |-> join(q)] :
        q \in UNION {[1..n -> InheritedDirs] : n \in 0..MaxInherited}}

InitEnv ==
    /\ fs = BaseFs
    /\ cfg = DefaultCfg
    /\ log = <<>>
    /\ trace = <<>>
    /\ timers = <<>>
    /\ now = 0
    /\ status = NoStatus
    /\ nops = 0
    /\ probes = 0
    /\ slow = 0
    /\ nginx_conf = NoConf
    /\ osenv \in [LD_LIBRARY_PATH : Inherited, PATH : Inherited]
    /\ dirs \in SUBSET CandidateDirs
    /\ env = NoEnv
    /\ mysql_cnf = CnfFor(fs)
    /\ spin = DefaultSpin
    /\ diag_output = <<>>

NextEnv == DoFallback

SpecEnv == InitEnv /\ [][NextEnv]_vars

----------------------------------------------------------------------------
(* Reading a step: the entries a step appends to the trace and to the log  *)

NewIdx == (Len(trace) + 1)..Len(trace')

NewLines == (Len(log) + 1)..Len(log')

\* the step is a call of start_service / stop_service for the service,
\* made directly or by an expired timer
StartStep(service) ==
    /\ Len(trace') > Len(trace)
    /\ trace'[Len(trace) + 1].ev = "start"
    /\ trace'[Len(trace) + 1].svc = service

StopStep(service) ==
    /\ Len(trace') > Len(trace)
    /\ trace'[Len(trace) + 1].ev = "stop"
    /\ trace'[Len(trace) + 1].svc = service

SwitchStep(version) ==
    /\ Len(trace') > Len(trace)
    /\ trace'[Len(trace) + 1].ev = "call"
    /\ trace'[Len(trace) + 1].arg = "switch_php_version"
    /\ trace'[Len(trace) + 1].svc = version

ProbeStep == probes' = probes - 1

Spawned == \E i \in NewIdx : trace'[i].ev = "spawn"

Reported == \E i \in NewIdx : trace'[i].ev = "dialog"

NoUnhandled == \A i \in NewIdx : trace'[i].ev # "unhandled"

PidFiles(f) == <<f.nginx_pid, f.mysql_pid, [v \in Versions |-> f.vers[v].pid], f.curdir.pid>>

----------------------------------------------------------------------------
(* Reading the trace: the calls of start_all_services and the starts each  *)
(* of them issued                                                          *)

StartAllCalls ==
    {i \in 1..Len(trace) : trace[i].ev = "call" /\ trace[i].arg = "start_all_services"}

StartsOf(i, service) ==
    {j \in 1..Len(trace) :
        trace[j].ev = "start" /\ trace[j].by = i /\ trace[j].svc = service}

\* the starts of one start_all_services come in the order mysql, php, nginx,
\* php at least 2000 ms and nginx at least 4000 ms after the call
StartAllOrder ==
    \A i \in StartAllCalls :
        /\ \A p \in StartsOf(i, "php") :
              \E m \in StartsOf(i, "mysql") :
                 m < p /\ trace[p].t >= trace[m].t + 2000
        /\ \A n \in StartsOf(i, "nginx") :
              /\ trace[n].t >= trace[i].t + 4000
              /\ \E p \in StartsOf(i, "php") : p < n

(* C1: in every execution of start_all_services the database start is      *)
(* issued before the script-runtime start, which is issued before the      *)
(* gateway start, and consecutive starts are at least 2000 ms apart.       *)
CE_C1 ==
    \A i \in StartAllCalls :
        /\ \A p \in StartsOf(i, "php") :
              \E m \in StartsOf(i, "mysql") :
                 m < p /\ trace[p].t >= trace[m].t + 2000
        /\ \A n \in StartsOf(i, "nginx") :
              \E p \in StartsOf(i, "php") :
                 p < n /\ trace[n].t >= trace[p].t + 2000

----------------------------------------------------------------------------
(* C2: probing the running state (update_status) creates, deletes or       *)
(* modifies no file, the operational log included.                         *)
CE_C2 == [][ProbeStep => (fs' = fs /\ log' = log)]_vars

(* C3: switch_php_version(V) for a version V without bin/php fails with an *)
(* error and mutates nothing on disk: 'current' is neither removed nor     *)
(* re-pointed.                                                             *)
CE_C3 ==
    [][\A v \in Versions :
          (SwitchStep(v) /\ ~fs.vers[v].php) => (fs' = fs /\ Reported)]_vars

(* C4: after switch_php_version(V) for an installed version V, from every  *)
(* prior state of 'current', 'current' points at V (and so at an existing  *)
(* target).                                                                *)
CE_C4 ==
    [][\A v \in Versions :
          (SwitchStep(v) /\ fs.vers[v].dir /\ fs.vers[v].php)
             => (fs'.cur = [kind |-> "link", target |-> v] /\ CurExists(fs'))]_vars

(* Reading nginx.conf as nginx does: a comment runs from # to the end of   *)
(* its line, a statement ends at ; { or }, and a listen directive is a      *)
(* statement whose first word is listen.                                   *)
RECURSIVE StripComments(_, _)
StripComments(text, incomment) ==
    IF text = <<>> THEN <<>>
    ELSE IF incomment
    THEN IF Head(text) = "\n"
         THEN <<"\n">> \o StripComments(Tail(text), FALSE)
         ELSE StripComments(Tail(text), TRUE)
    ELSE IF Head(text) = "#"
    THEN StripComments(Tail(text), TRUE)
    ELSE <<Head(text)>> \o StripComments(Tail(text), FALSE)

\* the statements of a text, leading whitespace dropped; cur = the one open
RECURSIVE Statements(_, _)
Statements(text, cur) ==
    IF text = <<>> THEN IF cur = <<>> THEN <<>> ELSE <<cur>>
    ELSE IF Head(text) \in {";", "{", "}"}
    THEN <<cur>> \o Statements(Tail(text), <<>>)
    ELSE IF IsSpace(Head(text)) /\ cur = <<>>
    THEN Statements(Tail(text), cur)
    ELSE Statements(Tail(text), Append(cur, Head(text)))

IsListen(st) ==
    /\ st # <<>>
    /\ st[1] = "listen"
    /\ (Len(st) = 1 \/ IsSpace(st[2]))

\* the port a listen directive names: its first numeral, "" without one
PortOf(st) ==
    LET ds == {i \in 1..Len(st) : IsDigits(st[i])} IN
    IF ds = {} THEN ""
    ELSE st[CHOOSE i \in ds : \A j \in ds : i <= j]

\* the ports of the listen directives of a text, in order
ListenValues(text) ==
    LET sts == SelectSeq(Statements(StripComments(text, FALSE), <<>>), IsListen) IN
    [i \in 1..Len(sts) |-> PortOf(sts[i])]

\* the step is update_nginx_port(port)
SetPortStep(port) ==
    \E i \in NewLines :
        /\ log'[i][1] \in {"Updated Nginx port to", "Created Nginx configuration with port"}
        /\ log'[i][3] = Format(port)

(* C5: after update_nginx_port(P), from nginx.conf absent, as generated or *)
(* existing with listen directives, the file holds exactly one listen      *)
(* directive and its value is P; a second call with another port leaves    *)
(* exactly one listen directive, with the second port.                     *)
CE_C5 ==
    [][\A port \in Ports :
          (/\ SetPortStep(port)
           /\ (~nginx_conf.exists \/ ListenValues(nginx_conf.text) # <<>>))
             => ListenValues(nginx_conf'.text) = <<Format(port)>>]_vars

(* C6: stop_service(S) for a service that is already stopped (no PID file, *)
(* no socket, shutdown command failing) raises no unhandled error and      *)
(* appends exactly one line to the operational log.                        *)
AlreadyStopped(f, service) ==
    CASE service = "nginx" -> f.nginx_pid = "absent"
      [] service = "php" -> CurResolve(f).pid = "absent"
      [] OTHER -> f.mysql_pid = "absent" /\ ~f.mysql_sock

ShutdownFailed == \A i \in NewIdx : trace'[i].ev = "admin" => trace'[i].arg = "failed"

CE_C6 ==
    [][\A service \in Services :
          (StopStep(service) /\ AlreadyStopped(fs, service) /\ ShutdownFailed)
             => (NoUnhandled /\ Len(log') = Len(log) + 1)]_vars

(* Reading a search path as the dynamic loader and the shell do: the       *)
(* entries are the stretches between separators.                           *)
RECURSIVE Split(_)
Split(text) ==
    LET seps == {i \in 1..Len(text) : text[i] = ":"} IN
    IF seps = {} THEN <<text>>
    ELSE LET i == CHOOSE k \in seps : \A j \in seps : k <= j IN
         <<SubSeq(text, 1, i - 1)>> \o Split(SubSeq(text, i + 1, Len(text)))

\* an empty variable has no entry
Entries(text) == IF text = <<>> THEN <<>> ELSE Split(text)

\* the position of a directory in a candidate list, 0 when it is not one
Pos(paths, entry) ==
    LET is == {i \in 1..Len(paths) : entry = <<paths[i]>>} IN
    IF is = {} THEN 0 ELSE CHOOSE i \in is : TRUE

IsPrivate(entry) == \E d \in PrivateDirs : entry = <<d>>

\* entries 1..n of E are existing candidates, in candidate order, the
\* private ones first
OrderedExisting(E, n, paths) ==
    /\ \A k \in 1..n : Pos(paths, E[k]) > 0 /\ paths[Pos(paths, E[k])] \in dirs
    /\ \A j, k \in 1..n : j < k => Pos(paths, E[j]) < Pos(paths, E[k])
    /\ \A j, k \in 1..n : (j < k /\ IsPrivate(E[k])) => IsPrivate(E[j])

(* C7 as stated: after get_fallback_environment every entry of             *)
(* LD_LIBRARY_PATH and of PATH is a candidate directory that exists, the   *)
(* entries are in candidate order and the private ones come first.         *)
CE_C7 ==
    env.resolved =>
        /\ OrderedExisting(Entries(env.LD_LIBRARY_PATH),
                           Len(Entries(env.LD_LIBRARY_PATH)), lib_paths)
        /\ OrderedExisting(Entries(env.PATH), Len(Entries(env.PATH)), bin_paths)

\* the number of candidates of a list that exist
NumExisting(paths) == Cardinality({i \in 1..Len(paths) : paths[i] \in dirs})

\* value = the n existing candidates (ordered, private first), then the
\* inherited value as it was
PrependedTo(value, paths, inherited) ==
    LET n == NumExisting(paths)
        E == Split(value)
    IN  /\ n > 0 => /\ Len(E) >= n
                    /\ OrderedExisting(E, n, paths)
        /\ IF inherited.set
           THEN IF n > 0
                THEN SubSeq(E, n + 1, Len(E)) = Split(inherited.val)
                ELSE E = <<<<>>>> \o Split(inherited.val)
           ELSE IF n > 0 THEN Len(E) = n ELSE value = <<>>

(* C7: after get_fallback_environment, LD_LIBRARY_PATH and PATH begin with *)
(* the candidate directories that exist on disk, in candidate order and    *)
(* the private ones before the system ones, followed by the inherited      *)
(* value unchanged; when deps/bin exists it is the first entry of PATH.    *)
Thm_C7 ==
    env.resolved =>
        /\ PrependedTo(env.LD_LIBRARY_PATH, lib_paths, osenv.LD_LIBRARY_PATH)
        /\ PrependedTo(env.PATH, bin_paths, osenv.PATH)
        /\ "deps/bin" \in dirs => Split(env.PATH)[1] = <<"deps/bin">>

\* resolved with private and system directories on disk, some candidates
\* missing, and an inherited PATH that lists a directory that is gone
W_C7 ==
    /\ env.resolved
    /\ {"deps/lib", "deps/bin", "/usr/bin"} \subseteq dirs
    /\ "/usr/lib64" \notin dirs
    /\ "stack/bin" \notin dirs
    /\ osenv.PATH.set
    /\ "/opt/gone" \in Range(osenv.PATH.val)
    /\ ~osenv.LD_LIBRARY_PATH.set

(* C8: get_environment never fails its caller: no start or stop is aborted *)
(* by an error raised while env.sh is executed.                            *)
CE_C8 ==
    [][\A i \in NewLines :
          log'[i][1] \in {"Error starting", "Error stopping"}
             => log'[i][3] # "bash: not launched"]_vars

(* C9: start_service(S) with a required file absent (the executable; for   *)
(* php also 'current' and its php-fpm.conf; for mysql also my.cnf) aborts  *)
(* with a reported failure, spawns no process and changes nothing on disk. *)
RequiredMissing(f, service) ==
    CASE service = "nginx" -> f.nginx_bin = "absent"
      [] service = "php" ->
            ~CurExists(f) \/ CurResolve(f).fpm = "absent" \/ ~CurResolve(f).conf
      [] OTHER -> f.mysql_safe = "absent" \/ ~f.my_cnf

CE_C9 ==
    [][\A service \in Services :
          (StartStep(service) /\ RequiredMissing(fs, service))
             => (Reported /\ ~Spawned /\ fs' = fs)]_vars

(* C10: in every execution of stop_service the only signal sent is SIGTERM *)
(* and no PID file is deleted or modified.                                 *)
Thm_C10 ==
    [][(\E service \in Services : \E i \in NewIdx :
            trace'[i].ev = "stop" /\ trace'[i].svc = service)
          => /\ \A i \in NewIdx : trace'[i].ev = "signal" => trace'[i].arg = "SIGTERM"
             /\ PidFiles(fs') = PidFiles(fs)]_vars

\* a stop has signalled the database from its PID file, which is still there
W_C10 ==
    \E i \in 1..Len(trace) :
        /\ trace[i].ev = "signal"
        /\ trace[i].svc = "mysql"
        /\ fs.mysql_pid = "live"

----------------------------------------------------------------------------
(* Reading a stop of the database *)

GracefulOk ==
    \E i \in NewIdx :
        trace'[i].ev = "admin" /\ trace'[i].svc = "shutdown" /\ trace'[i].arg = "ok"

Signalled(service) ==
    \E i \in NewIdx : trace'[i].ev = "signal" /\ trace'[i].svc = service

(* C11: stop_service("mysql") sends the PID-file signal only when the      *)
(* graceful mariadb-admin shutdown did not succeed, and sends it whenever  *)
(* it did not succeed and the PID file names a process, also when          *)
(* mariadb-admin is missing.                                               *)
CE_C11 ==
    [][(StopStep("mysql") /\ fs.envsh # "oserror")
          => /\ Signalled("mysql") => ~GracefulOk
             /\ (~GracefulOk /\ fs.mysql_pid = "live") => Signalled("mysql")]_vars

----------------------------------------------------------------------------
(* Restarting one service, with the status probe running in between *)

InitRestart ==
    /\ fs \in FsStates
    /\ cfg = DefaultCfg
    /\ log = <<>>
    /\ trace = <<>>
    /\ timers = <<>>
    /\ now = 0
    /\ status = NoStatus
    /\ nops = MaxOps
    /\ probes = MaxProbes
    /\ slow = MaxSlow
    /\ nginx_conf = [exists |-> TRUE, text |-> Template(NginxPortDefault)]
    /\ osenv = DefaultOsEnv
    /\ dirs = CandidateDirs
    /\ env = NoEnv
    /\ mysql_cnf = CnfFor(fs)
    /\ spin = DefaultSpin
    /\ diag_output = <<>>

NextRestart ==
    \/ \E service \in Services : DoRestart(service)
    \/ Probe
    \/ FireTimer
    \/ Tick

SpecRestart == InitRestart /\ [][NextRestart]_vars

\* the calls of restart_service, the events each issued, and what is
\* still pending for it
RestartCalls ==
    {i \in 1..Len(trace) : trace[i].ev = "call" /\ trace[i].arg = "restart_service"}

IssuedBy(i, kind) == {j \in 1..Len(trace) : trace[j].ev = kind /\ trace[j].by = i}

PendingBy(i) == {k \in 1..Len(timers) : timers[k].by = i}

\* the stop failed: it reported an error
StopFailed(j) ==
    \E k \in (j + 1)..Len(trace) :
        /\ trace[k].ev = "dialog"
        /\ trace[k].svc = trace[j].svc
        /\ \A m \in (j + 1)..k : trace[m].ev \notin {"start", "stop", "call"}

(* C12: restart_service(S) issues stop_service(S) first and start_service(S) *)
(* exactly once, not earlier than 1000 ms after the stop, also when the    *)
(* stop failed.                                                            *)
Thm_C12 ==
    \A i \in RestartCalls :
        /\ i < Len(trace)
        /\ trace[i + 1].ev = "stop"
        /\ trace[i + 1].svc = trace[i].svc
        /\ IssuedBy(i, "stop") = {i + 1}
        /\ Cardinality(IssuedBy(i, "start")) + Cardinality(PendingBy(i)) = 1
        /\ \A k \in PendingBy(i) :
              /\ timers[k].act = "start_service"
              /\ timers[k].arg = trace[i].svc
              /\ timers[k].due >= trace[i + 1].t + 1000
        /\ \A j \in IssuedBy(i, "start") :
              /\ j > i + 1
              /\ trace[j].svc = trace[i].svc
              /\ trace[j].t >= trace[i + 1].t + 1000

\* a restart whose stop failed has issued its start
W_C12 ==
    \E i \in RestartCalls :
        /\ StopFailed(i + 1)
        /\ IssuedBy(i, "start") # {}

----------------------------------------------------------------------------
(* Reading the trace: the calls of stop_all_services *)

StopAllCalls ==
    {i \in 1..Len(trace) : trace[i].ev = "call" /\ trace[i].arg = "stop_all_services"}

\* the cleanups a call has run or has pending
Cleanups(i, name) ==
    Cardinality({j \in IssuedBy(i, "clean") : trace[j].arg = name})
      + Cardinality({k \in PendingBy(i) : timers[k].act = name})

\* events of one handler run: nothing in them begins another handler
SameRun(a, b) == \A m \in a..b : trace[m].ev \notin {"call", "clean"} /\ trace[m].by \in {0, trace[a].by}

----------------------------------------------------------------------------
(* Start-all and stop-all with every subset of the services failing, and   *)
(* with every combination of the cleanup check boxes.                      *)

\* the services in F cannot be started (binary in state bin) nor stopped
\* (PID file in state pid); the others run
FailingFs(F, bin, pid) ==
    [BaseFs EXCEPT
        !.mysql_sock = TRUE,
        !.nginx_bin = IF "nginx" \in F THEN bin ELSE "ok",
        !.nginx_pid = IF "nginx" \in F THEN pid ELSE "live",
        !.vers = [@ EXCEPT !["8.3"] =
                    [@ EXCEPT !.fpm = IF "php" \in F THEN bin ELSE "ok",
                              !.pid = IF "php" \in F THEN pid ELSE "live"]],
        !.mysql_safe = IF "mysql" \in F THEN bin ELSE "ok",
        !.mysql_pid = IF "mysql" \in F THEN pid ELSE "live"]

FailFs ==
    {FailingFs(F, bin, pid) :
        F \in SUBSET Services, bin \in {"absent", "noexec"}, pid \in {"stale", "garbage"}}

CleanCfgs ==
    [auto_start : {FALSE}, auto_load_env : {FALSE},
     auto_clean_logs : BOOLEAN, auto_clean_temp : BOOLEAN]

InitAll ==
    /\ \/ fs \in FailFs /\ cfg = DefaultCfg
       \/ fs = FailingFs({}, "ok", "live") /\ cfg \in CleanCfgs
    /\ log = <<>>
    /\ trace = <<>>
    /\ timers = <<>>
    /\ now = 0
    /\ status = NoStatus
    /\ nops = MaxOps
    /\ probes = 0
    /\ slow = MaxSlow
    /\ nginx_conf = [exists |-> TRUE, text |-> Template(NginxPortDefault)]
    /\ osenv = DefaultOsEnv
    /\ dirs = CandidateDirs
    /\ env = NoEnv
    /\ mysql_cnf = CnfFor(fs)
    /\ spin = DefaultSpin
    /\ diag_output = <<>>

NextAll ==
    \/ DoStartAll
    \/ DoStopAll
    \/ FireTimer
    \/ Tick

SpecAll == InitAll /\ [][NextAll]_vars

\* the start or stop of the service in this step failed: it raised a dialog
FailedIn(service) ==
    \E i \in NewIdx : trace'[i].ev = "dialog" /\ trace'[i].svc = service

\* the step wrote the failure to the log
LoggedFailure(service) ==
    \E i \in NewLines :
        /\ log'[i][1] \in {"Error starting", "Error stopping"}
        /\ log'[i][2] = service

\* every start-all has started each service or holds its start pending,
\* every stop-all has stopped each service
AllAttempted ==
    /\ \A i \in StartAllCalls : \A service \in Services :
          \/ StartsOf(i, service) # {}
          \/ \E k \in PendingBy(i) : timers[k].act = "start_service" /\ timers[k].arg = service
    /\ \A i \in StopAllCalls : \A service \in Services :
          \E j \in IssuedBy(i, "stop") : trace[j].svc = service

(* C15: during start_all_services and stop_all_services a failing start or *)
(* stop of one service is written to the log and the remaining services    *)
(* are still attempted, for every subset of failing services.              *)
CE_C15 ==
    [][/\ \A service \in Services : FailedIn(service) => LoggedFailure(service)
       /\ AllAttempted']_vars

----------------------------------------------------------------------------
(* Reading the trace: the calls of restart_all_services *)

RestartAllCalls ==
    {i \in 1..Len(trace) : trace[i].ev = "call" /\ trace[i].arg = "restart_all_services"}

\* the calls of op that call i made or deferred
CallsBy(i, op) ==
    {j \in 1..Len(trace) : trace[j].ev = "call" /\ trace[j].arg = op /\ trace[j].by = i}

\* the order in which one start_all_services issues its starts
StartOrder(c) ==
    /\ \A p \in StartsOf(c, "php") : \E m \in StartsOf(c, "mysql") : m < p
    /\ \A n \in StartsOf(c, "nginx") : \E p \in StartsOf(c, "php") : p < n

(* C14: restart_all_services issues the three stops before any start, and *)
(* the first start, of the database, not earlier than 5000 ms after the    *)
(* stop-all, followed by the starts in the order mysql, php, nginx.        *)
Thm_C14 ==
    \A r \in RestartAllCalls :
        /\ CallsBy(r, "stop_all_services") = {r + 1}
        /\ \E n, p, m \in IssuedBy(r + 1, "stop") :
              /\ IssuedBy(r + 1, "stop") = {n, p, m}
              /\ n < p /\ p < m
              /\ SameRun(r + 2, m)
              /\ Cardinality(CallsBy(r, "start_all_services"))
                    + Cardinality({k \in PendingBy(r) : timers[k].act = "start_all_services"}) = 1
              /\ \A k \in PendingBy(r) : timers[k].due >= trace[m].t + 5000
              /\ \A c \in CallsBy(r, "start_all_services") :
                    /\ c > m
                    /\ trace[c].t >= trace[m].t + 5000
                    /\ StartOrder(c)
                    /\ \A service \in Services : \A j \in StartsOf(c, service) :
                          j > c /\ trace[j].t >= trace[m].t + 5000
                    /\ \A j \in StartsOf(c, "mysql") : j = c + 1

\* a restart-all has gone through to the start of nginx
W_C14 ==
    \E r \in RestartAllCalls : \E c \in CallsBy(r, "start_all_services") :
        StartsOf(c, "nginx") # {}

----------------------------------------------------------------------------
(* Reading a configuration file line by line *)

RECURSIVE LinesOf(_)
LinesOf(text) ==
    LET nls == {i \in 1..Len(text) : text[i] = "\n"} IN
    IF nls = {} THEN <<text>>
    ELSE LET i == CHOOSE k \in nls : \A j \in nls : k <= j IN
         <<SubSeq(text, 1, i - 1)>> \o LinesOf(SubSeq(text, i + 1, Len(text)))

\* a line of nginx.conf that holds a listen directive
IsListenLine(line) == ListenValues(line) # <<>>

\* a line of my.cnf that sets the option named port: the name is what
\* stands before the = sign
IsPortLine(line) ==
    LET eqs == {i \in 1..Len(line) : line[i] = "="} IN
    /\ eqs # {}
    /\ SelectSeq(SubSeq(line, 1, (CHOOSE i \in eqs : \A j \in eqs : i <= j) - 1),
                 LAMBDA tok : ~IsSpace(tok)) = <<"port">>

\* the lines that are not port-bearing are the same in old and new
OnlyPortLines(old, new, IsPortBearing(_)) ==
    LET a == LinesOf(old)
        b == LinesOf(new)
    IN  /\ Len(a) = Len(b)
        /\ \A k \in 1..Len(a) : ~IsPortBearing(a[k]) => b[k] = a[k]

\* the step rewrote an existing file
Rewrote(message) == \E i \in NewLines : log'[i][1] = message

(* C16: update_nginx_port and update_mysql_port on an existing file change *)
(* only the port-bearing directives (listen; port) and leave every other   *)
(* line as it was, also a setting whose name merely contains port or       *)
(* listen.                                                                 *)
CE_C16 ==
    [][/\ Rewrote("Updated Nginx port to") =>
             OnlyPortLines(nginx_conf.text, nginx_conf'.text, IsListenLine)
       /\ Rewrote("Updated MySQL port to") =>
             OnlyPortLines(mysql_cnf.text, mysql_cnf'.text, IsPortLine)]_vars

----------------------------------------------------------------------------
(* Reading my.cnf: the values of its port settings, in order *)

PortValues(text) ==
    LET ls == SelectSeq(LinesOf(text), IsPortLine) IN
    [k \in 1..Len(ls) |-> PortOf(ls[k])]

\* the step is a direct call of op with the port
PortCallStep(op, port) ==
    /\ Len(trace') > Len(trace)
    /\ trace'[Len(trace) + 1].ev = "call"
    /\ trace'[Len(trace) + 1].arg = op
    /\ trace'[Len(trace) + 1].svc = Format(port)

----------------------------------------------------------------------------
(* Reading a step: a call that applies a port *)

PortStep ==
    /\ Len(trace') > Len(trace)
    /\ trace'[Len(trace) + 1].ev = "call"
    /\ trace'[Len(trace) + 1].arg \in
          {"apply_port_changes", "update_nginx_port", "update_mysql_port"}

(* C18: apply_port_changes, update_nginx_port and update_mysql_port issue  *)
(* no stop, start or restart of a service and defer none: what runs is     *)
(* what ran before.                                                        *)
Thm_C18 ==
    [][PortStep =>
          /\ \A i \in NewIdx :
                trace'[i].ev \notin {"start", "stop", "spawn", "signal", "admin"}
          /\ timers' = timers
          /\ PidFiles(fs') = PidFiles(fs)
          /\ fs'.mysql_sock = fs.mysql_sock]_vars

\* the ports were applied and my.cnf holds the new port
W_C18 ==
    /\ \E i \in 1..Len(log) : log[i][1] = "Applied port changes" /\ log[i][3] = "1024"
    /\ PortValues(mysql_cnf.text) = <<"1024", "1024">>

\* a file that exists holds text
NotTruncated(file) == file.exists => file.text # <<>>

(* C19: after update_nginx_port, update_mysql_port or the my.cnf repair,   *)
(* whether the call returned, failed or was interrupted between its steps, *)
(* the configuration file is not empty or cut short: it holds the old or   *)
(* the new content in full.                                                *)
CE_C19 ==
    [][PortStep =>
          /\ NotTruncated(nginx_conf') /\ NotTruncated(mysql_cnf')
          /\ \A i \in NewIdx : trace'[i].ev = "unhandled" =>
                nginx_conf' = nginx_conf /\ mysql_cnf' = mysql_cnf]_vars

----------------------------------------------------------------------------
(* Diagnostics on every state of the installation, with my.cnf absent,     *)
(* generated, or declaring the system socket                               *)

SystemSocketCnf ==
    [exists |-> TRUE,
     text |-> <<"[mysqld]", "\n", "socket", "=", "/tmp/mysql.sock", "\n">>]

\* a my.cnf declaring another socket shared with the system's own server
RunSocketCnf ==
    [exists |-> TRUE,
     text |-> <<"[mysqld]", "\n", "socket", "=", "/var/run/mysqld/mysqld.sock", "\n">>]

\* the private socket for the clients, a shared one for the server
MixedSocketCnf ==
    [exists |-> TRUE,
     text |-> <<"[client]", "\n", "socket", "=", "mariadb.sock", "\n",
                "[mysqld]", "\n", "socket", " ", "=", " ", "/run/mysqld/mysqld.sock", "\n">>]

DiagCnfs == {GeneratedCnf, SystemSocketCnf, RunSocketCnf, MixedSocketCnf}

InitDiag ==
    /\ fs \in FsStates
    /\ mysql_cnf \in (IF fs.my_cnf THEN DiagCnfs ELSE {NoConf})
    /\ nginx_conf = GeneratedConf
    /\ cfg = DefaultCfg
    /\ log = <<>>
    /\ trace = <<>>
    /\ timers = <<>>
    /\ now = 0
    /\ status = NoStatus
    /\ nops = MaxOps
    /\ probes = 0
    /\ slow = 0
    /\ spin = DefaultSpin
    /\ diag_output = <<>>
    /\ osenv = DefaultOsEnv
    /\ dirs = CandidateDirs
    /\ env = NoEnv

NextDiag == DoDiagnostics

SpecDiag == InitDiag /\ [][NextDiag]_vars

\* the step is a run of run_diagnostics
DiagStep ==
    /\ Len(trace') > Len(trace)
    /\ trace'[Len(trace) + 1].ev = "call"
    /\ trace'[Len(trace) + 1].arg = "run_diagnostics"

(* C20: run_diagnostics, check_icu_via_php included, only observes: it     *)
(* creates, deletes or modifies no file under the stack root, the log      *)
(* included, changes no link and starts or stops no service.               *)
CE_C20 ==
    [][DiagStep =>
          /\ fs' = fs
          /\ log' = log
          /\ nginx_conf' = nginx_conf
          /\ mysql_cnf' = mysql_cnf
          /\ timers' = timers
          /\ \A i \in NewIdx :
                trace'[i].ev \notin {"start", "stop", "spawn", "signal"}]_vars
----------------------------------------------------------------------------
(* Repair, on every state of the php tree and of the database directory    *)

\* a my.cnf the user has edited: the generated one with a setting added
CustomCnf ==
    [exists |-> TRUE,
     text |-> MyCnfTemplate(MysqlPortDefault) \o <<"max_connections", "=", "500", "\n">>]

\* states of mariadb/ and of the other standard directories
DataStates == {"absent", "empty", "populated"}

RepairDbFs ==
    {[BaseFs EXCEPT !.envsh = e,
                    !.mariadb_dir = d,
                    !.my_cnf = d /\ c,
                    !.mariadb_logs = d /\ l,
                    !.mariadb_tmp = d /\ l,
                    !.nginx_logs = l,
                    !.www = l,
                    !.mysql_data = IF d THEN dt ELSE "absent",
                    !.mysql_install_db = d /\ i,
                    !.mysql_pid = IF d THEN "live" ELSE "absent"] :
        e \in EnvShStates, d \in BOOLEAN, c \in BOOLEAN, l \in BOOLEAN,
        dt \in DataStates, i \in BOOLEAN}

RepairFs == PhpFs \cup RepairDbFs

InitRepair ==
    /\ fs \in RepairFs
    /\ mysql_cnf \in (IF fs.my_cnf THEN {GeneratedCnf, CustomCnf} ELSE {NoConf})
    /\ nginx_conf = GeneratedConf
    /\ cfg = DefaultCfg
    /\ log = <<>>
    /\ trace = <<>>
    /\ timers = <<>>
    /\ now = 0
    /\ status = NoStatus
    /\ nops = MaxOps
    /\ probes = 0
    /\ slow = 0
    /\ osenv = DefaultOsEnv
    /\ dirs = CandidateDirs
    /\ env = NoEnv
    /\ spin = DefaultSpin
    /\ diag_output = <<>>

NextRepair ==
    \/ DoFixSymlinks
    \/ DoAutoRepair

SpecRepair == InitRepair /\ [][NextRepair]_vars

\* the step is a call of the handler named op
CallStep(op) ==
    /\ Len(trace') > Len(trace)
    /\ trace'[Len(trace) + 1].ev = "call"
    /\ trace'[Len(trace) + 1].arg = op

\* every line of the old text is a line of the new one
KeepsLines(old, new) ==
    \A k \in 1..Len(LinesOf(old)) :
        \E j \in 1..Len(LinesOf(new)) : LinesOf(new)[j] = LinesOf(old)[k]

(* C21: auto_repair removes no existing directory tree (a php/current that *)
(* is a real directory stays, with what it holds), loses no line of an     *)
(* existing my.cnf, and stops no service.                                  *)
CE_C21 ==
    [][CallStep("auto_repair") =>
          /\ fs.cur.kind = "dir" => (fs'.cur.kind = "dir" /\ fs'.curdir = fs.curdir)
          /\ mysql_cnf.exists => KeepsLines(mysql_cnf.text, mysql_cnf'.text)
          /\ \A i \in NewIdx : trace'[i].ev \notin {"stop", "signal"}]_vars
----------------------------------------------------------------------------
(* Reading a repair step *)

\* the step runs fix_php_symlinks, from its button or from auto_repair
FixSymlinksStep == CallStep("fix_php_symlinks") \/ CallStep("auto_repair")

\* the version directories that hold bin/php
WithBinary(f) == {v \in Versions : f.vers[v].dir /\ f.vers[v].php}

\* the order in which the step's iterdir() listed the version directories
ListedOrder == CHOOSE q \in DirOrders : q[1] = trace'[Len(trace) + 1].svc

\* the first listed version that has a binary
FirstWithBinary(f, q) ==
    q[CHOOSE i \in 1..Len(q) :
        /\ q[i] \in WithBinary(f)
        /\ \A j \in 1..(i - 1) : q[j] \notin WithBinary(f)]

(* C22: when some version directory holds bin/php and php/current is       *)
(* missing, fix_php_symlinks links php/current to the first listed version *)
(* that has a binary, and reports success.                                 *)
Thm_C22 ==
    [][(FixSymlinksStep /\ fs.cur.kind = "absent" /\ WithBinary(fs) # {}) =>
          /\ fs'.cur = [kind |-> "link", target |-> FirstWithBinary(fs, ListedOrder)]
          /\ fs'.cur.target \in WithBinary(fs)
          /\ fs'.vers = fs.vers
          /\ \E i \in NewLines :
                log'[i] = <<"Fixed PHP symlink to version", fs'.cur.target, "">>
          /\ \E i \in NewIdx :
                trace'[i].ev = "dialog" /\ trace'[i].svc = "php"
                /\ trace'[i].arg = "information"]_vars

\* only 8.4 has a binary, 8.3 was listed first, nothing had to be removed,
\* and php/current links to 8.4
W_C22 ==
    /\ Len(trace) > 0
    /\ trace[1].ev = "call"
    /\ trace[1].arg = "fix_php_symlinks"
    /\ trace[1].svc = "8.3"
    /\ \A i \in 1..Len(trace) : trace[i].ev # "remove"
    /\ fs.vers["8.3"].dir
    /\ ~fs.vers["8.3"].php
    /\ fs.cur = [kind |-> "link", target |-> "8.4"]
    /\ \E i \in 1..Len(log) : log[i] = <<"Fixed PHP symlink to version", "8.4", "">>
----------------------------------------------------------------------------
(* Reading my.cnf: the socket paths it declares *)

\* a line without its whitespace
Squeezed(line) == SelectSeq(line, LAMBDA tok : ~IsSpace(tok))

\* the values of the lines socket = <path>
DeclaredSockets(text) ==
    {Squeezed(LinesOf(text)[k])[3] :
        k \in {n \in 1..Len(LinesOf(text)) :
                 /\ Len(Squeezed(LinesOf(text)[n])) = 3
                 /\ Squeezed(LinesOf(text)[n])[1] = "socket"
                 /\ Squeezed(LinesOf(text)[n])[2] = "="}}

\* the socket inside the stack's own tree
PrivateSocket == "mariadb.sock"

\* what the last run of the diagnostics found for a check
Finding(check) ==
    {diag_output[i][2] : i \in {n \in 1..Len(diag_output) : diag_output[n][1] = check}}

(* C23: for every my.cnf that declares a socket path outside the private   *)
(* tree, the diagnostics report the isolation check as failing; they       *)
(* report it as passing only when every declared socket is the private one.*)
CE_C23 ==
    (diag_output # <<>> /\ mysql_cnf.exists) =>
        /\ (DeclaredSockets(mysql_cnf.text) \ {PrivateSocket} # {})
              => Finding("MySQL configuration") = {"system socket"}
        /\ Finding("MySQL configuration") = {"isolated socket"}
              => DeclaredSockets(mysql_cnf.text) \subseteq {PrivateSocket}
----------------------------------------------------------------------------
(* The resolver on every env.sh: absent, failing, or exporting any subset  *)
(* of the variables                                                        *)

ResolveFs ==
    {[BaseFs EXCEPT !.envsh = e, !.envsh_sets = IF e = "absent" THEN {} ELSE x] :
        e \in EnvShStates, x \in SUBSET EnvVars}

InitResolve ==
    /\ fs \in ResolveFs
    /\ cfg = DefaultCfg
    /\ log = <<>>
    /\ trace = <<>>
    /\ timers = <<>>
    /\ now = 0
    /\ status = NoStatus
    /\ nops = MaxOps
    /\ probes = 0
    /\ slow = 0
    /\ nginx_conf = GeneratedConf
    /\ mysql_cnf = CnfFor(fs)
    /\ osenv \in [LD_LIBRARY_PATH : Inherited, PATH : {DefaultOsEnv.PATH}]
    /\ dirs \in {CandidateDirs, PrivateDirs, {}}
    /\ env = NoEnv
    /\ spin = DefaultSpin
    /\ diag_output = <<>>

NextResolve == DoLoadEnvironment

SpecResolve == InitResolve /\ [][NextResolve]_vars

(* C24: every environment get_environment returns, by env.sh or by the     *)
(* fallback, holds WEBSTACK_HOME (the stack root) and PKG_CONFIG_PATH (the *)
(* pkgconfig directory of the private deps tree).                          *)
CE_C24 ==
    env.resolved =>
        /\ env.WEBSTACK_HOME = "stack"
        /\ env.PKG_CONFIG_PATH = "deps/lib/pkgconfig"
----------------------------------------------------------------------------
(* Reading a version switch *)

\* the version of the last switch that went through, "" when there is none
LastSwitched(lg) ==
    LET done == {i \in 1..Len(lg) : lg[i][1] = "Switched to PHP"} IN
    IF done = {} THEN ""
    ELSE lg[CHOOSE i \in done : \A j \in done : j <= i][2]

\* the deferred steps the step has scheduled
NewTimers == (Len(timers) + 1)..Len(timers')

\* the step is the deferred start of php that a version switch scheduled
SwitchStartStep ==
    /\ StartStep("php")
    /\ trace'[Len(trace) + 1].by > 0
    /\ trace[trace'[Len(trace) + 1].by].arg = "switch_php_version"

(* C25: switch_php_version issues the stop of php first, against the old   *)
(* php/current; it schedules the start only once php/current links to the  *)
(* new version; the start runs no earlier than 1000 ms after the stop and  *)
(* launches the php-fpm of the version switched to.                        *)
Thm_C25 ==
    [][/\ \A v \in Versions : SwitchStep(v) =>
            /\ Len(trace') >= Len(trace) + 2
            /\ trace'[Len(trace) + 2].ev = "stop"
            /\ trace'[Len(trace) + 2].svc = "php"
            /\ \A i \in NewIdx : trace'[i].ev \notin {"start", "spawn"}
            /\ (CurResolve(fs).pid = "live" /\ fs.envsh # "oserror") => Signalled("php")
            /\ Len(timers') <= Len(timers) + 1
            /\ fs'.cur # fs.cur => NewTimers # {}
            /\ \A k \in NewTimers :
                  /\ timers'[k].act = "start_service"
                  /\ timers'[k].arg = "php"
                  /\ timers'[k].by = Len(trace) + 1
                  /\ timers'[k].due >= trace'[Len(trace) + 2].t + 1000
                  /\ fs'.cur = [kind |-> "link", target |-> v]
       /\ SwitchStartStep =>
            /\ now >= trace[trace'[Len(trace) + 1].by + 1].t + 1000
            /\ fs.cur = [kind |-> "link", target |-> LastSwitched(log)]
            /\ \A i \in NewIdx :
                  trace'[i].ev = "spawn" => trace'[i].arg = LastSwitched(log)]_vars

\* php-fpm of 8.3 was signalled, php/current was re-pointed, and the
\* deferred start launched the php-fpm of 8.4
W_C25 ==
    \E i \in 1..Len(trace) :
        /\ trace[i].ev = "call"
        /\ trace[i].arg = "switch_php_version"
        /\ trace[i].svc = "8.4"
        /\ fs.vers["8.3"].pid = "live"
        /\ \E k \in (i + 1)..Len(trace) : trace[k].ev = "signal" /\ trace[k].svc = "php"
        /\ \E j \in (i + 1)..Len(trace) :
              /\ trace[j].ev = "start"
              /\ trace[j].by = i
              /\ j < Len(trace)
              /\ trace[j + 1].ev = "spawn"
              /\ trace[j + 1].arg = "8.4"
----------------------------------------------------------------------------
(* Several operations in a row on a complete installation: the buttons are *)
(* enabled at all times, so the next click may come while deferred steps   *)
(* of the last one are pending.                                            *)

InitInter ==
    /\ fs \in SchedFs
    /\ cfg \in SchedCfg
    /\ log = <<>>
    /\ trace = <<>>
    /\ timers = <<>>
    /\ now = 0
    /\ status = NoStatus
    /\ nops = MaxOps + 1
    /\ probes = 0
    /\ slow = 0
    /\ nginx_conf = GeneratedConf
    /\ mysql_cnf = CnfFor(fs)
    /\ osenv = DefaultOsEnv
    /\ dirs = CandidateDirs
    /\ env = NoEnv
    /\ spin = DefaultSpin
    /\ diag_output = <<>>

NextInter ==
    \/ \E service \in Services : DoStop(service)
    \/ \E service \in Services : DoRestart(service)
    \/ DoStartAll
    \/ DoStopAll
    \/ FireTimer
    \/ Tick

SpecInter == InitInter /\ [][NextInter]_vars

\* the user-triggered operation an entry of the trace tr belongs to: the
\* call that issued it, followed back to the one no other call issued
RECURSIVE OpOf(_, _)
OpOf(tr, i) == IF tr[i].by = 0 THEN i ELSE OpOf(tr, tr[i].by)

\* the deferred starts of the service that were pending before the step and
\* are still pending after it
StillPending(service) ==
    {k \in 1..Len(timers') :
        /\ timers'[k].act = "start_service"
        /\ timers'[k].arg = service
        /\ \E m \in 1..Len(timers) : timers[m] = timers'[k]}

(* C26: no stop or start of a service by one operation is executed while   *)
(* another operation has a deferred start of that service pending.         *)
CE_C26 ==
    [][\A i \in NewIdx :
          trace'[i].ev \in {"start", "stop"} =>
             \A k \in StillPending(trace'[i].svc) :
                OpOf(trace', timers'[k].by) = OpOf(trace', i)]_vars
----------------------------------------------------------------------------
(* The operations that defer steps, in a row, with the event loop kept     *)
(* running: an expired timer is delivered and the clock goes on.           *)
(* Operations come early enough for their last deferred step (the nginx    *)
(* start of a start-all, 4000 ms) to fall within the clock's bound.        *)

LongestDelay == 4000

EarlyEnough == now + LongestDelay <= MaxTicks * 1000

InitDeferred ==
    /\ fs = [BaseFs EXCEPT !.mysql_sock = TRUE]
    /\ cfg \in SchedCfg
    /\ log = <<>>
    /\ trace = <<>>
    /\ timers = <<>>
    /\ now = 0
    /\ status = NoStatus
    /\ nops = MaxOps + 1
    /\ probes = 0
    /\ slow = 0
    /\ nginx_conf = GeneratedConf
    /\ mysql_cnf = CnfFor(fs)
    /\ osenv = DefaultOsEnv
    /\ dirs = CandidateDirs
    /\ env = NoEnv
    /\ spin = DefaultSpin
    /\ diag_output = <<>>

NextDeferred ==
    \/ EarlyEnough /\ DoRestart("php")
    \/ EarlyEnough /\ DoStartAll
    \/ EarlyEnough /\ DoStopAll
    \/ FireTimer
    \/ Tick

SpecDeferred ==
    InitDeferred /\ [][NextDeferred]_vars /\ WF_vars(FireTimer) /\ WF_vars(Tick)

----------------------------------------------------------------------------
(* Reading the deferred steps *)

\* the trace entry e is the execution of the deferred step tm
Executes(tm, e) ==
    /\ e.by = tm.by
    /\ CASE tm.act = "start_service" -> e.ev = "start" /\ e.svc = tm.arg
         [] tm.act = "start_all_services" -> e.ev = "call" /\ e.arg = tm.act
         [] OTHER -> e.ev = "clean" /\ e.arg = tm.act

ExecutionsOf(tm, tr, idx) == {i \in idx : Executes(tm, tr[i])}

----------------------------------------------------------------------------
(* Launch on every state of the php tree and of env.sh, with every         *)
(* combination of the auto-start and auto-load settings                    *)

LaunchCfgs ==
    [auto_start : BOOLEAN, auto_load_env : BOOLEAN,
     auto_clean_logs : {FALSE}, auto_clean_temp : {FALSE}]

InitLaunch ==
    /\ fs \in PhpFs \cup EnvFs
    /\ cfg \in LaunchCfgs
    /\ log = <<>>
    /\ trace = <<>>
    /\ timers = <<>>
    /\ now = 0
    /\ status = NoStatus
    /\ nops = MaxOps
    /\ probes = 0
    /\ slow = 0
    /\ nginx_conf = GeneratedConf
    /\ mysql_cnf = CnfFor(fs)
    /\ osenv = DefaultOsEnv
    /\ dirs = CandidateDirs
    /\ env = NoEnv
    /\ spin = DefaultSpin
    /\ diag_output = <<>>

NextLaunch ==
    \/ DoLaunch
    \/ DoResetSettings
    \/ FireTimer
    \/ Tick

SpecLaunch == InitLaunch /\ [][NextLaunch]_vars

\* the program was launched with auto-start on and is running; a reset of
\* the settings turns auto-start off
LaunchedWithAutoStart == Running /\ cfg.auto_start

\* the start-alls still to come
PendingStartAlls == {k \in 1..Len(timers) : timers[k].act = "start_all_services"}

(* C28: at launch with auto-start on, start_all_services is invoked once:   *)
(* load_settings and main do not both schedule it, and each service gets   *)
(* one start attempt.                                                      *)
CE_C28 ==
    LaunchedWithAutoStart =>
        /\ Cardinality(StartAllCalls) + Cardinality(PendingStartAlls) = 1
        /\ \A service \in Services :
              Cardinality({j \in 1..Len(trace) :
                              /\ trace[j].ev = "start"
                              /\ trace[j].svc = service
                              /\ trace[j].by \in StartAllCalls}) <= 1
----------------------------------------------------------------------------
(* Reading a step that populates the list of versions: every run of       *)
(* load_settings does                                                      *)

PopulateStep ==
    \E i \in NewIdx : trace'[i].ev = "call" /\ trace'[i].arg = "load_settings"

(* C29: populate_php_versions neither stops nor starts php, now or         *)
(* deferred, and leaves php/current pointing at the target it had.         *)
CE_C29 ==
    [][PopulateStep =>
          /\ \A i \in NewIdx :
                ~(trace'[i].ev \in {"stop", "start"} /\ trace'[i].svc = "php")
          /\ \A k \in NewTimers :
                ~(timers'[k].act = "start_service" /\ timers'[k].arg = "php")
          /\ fs'.cur = fs.cur]_vars
----------------------------------------------------------------------------
(* C30: every switch_php_version that has issued the stop of php has a     *)
(* start of php scheduled when it returns, also when removing or           *)
(* recreating php/current failed.                                          *)
CE_C30 ==
    [][\A v \in Versions :
          (SwitchStep(v) /\ \E i \in NewIdx : trace'[i].ev = "stop" /\ trace'[i].svc = "php")
             => \E k \in NewTimers :
                   /\ timers'[k].act = "start_service"
                   /\ timers'[k].arg = "php"
                   /\ timers'[k].by = Len(trace) + 1]_vars

====
